---- MODULE Spec2Model ----
(***************************************************************************)
(* A model of godef: the lru container, the file and directory caches      *)
(* built on it, findPackageMember's worker pool and the tier order of      *)
(* definition.                                                             *)
(*                                                                         *)
(* One lru.Cache is a record:                                              *)
(*   nil        c.cache == nil (and c.ll == nil: the code sets and clears  *)
(*              the two together)                                          *)
(*   ll         the recency list, front first, as a sequence of element    *)
(*              identities (list elements)                                  *)
(*   cache      the key map, key -> element identity                       *)
(*   elems      the heap: element identity -> its entry {key, value}       *)
(*   MaxEntries, OnAdded, OnEvicted   which function the field holds       *)
(*              ("nil" or the name of the method stored there)             *)
(*   size, entries, maxSize   the fields of the owning File / Dir that     *)
(*              the stored methods read and write                          *)
(*   probe, evlog, addlog   an instrumented listener: when probe is set,   *)
(*              every OnEvicted / OnAdded call is counted per value        *)
(***************************************************************************)
EXTENDS Integers, Sequences, FiniteSets, TLC

\* ------------------------------------------------------------------ bounds
NumKeys == 3
MaxValSize == 2
MaxOps == 4
MaxLimit == 3
NumFiles == 3
GateCap == 2
NumPaths == 2
NumDirs == 1
NumThreads == 2
MaxCalls == 3
MaxMods == 2
MaxTime == 2
MaxFileSize == 1
FileCeiling == 2
DirCeiling == 1
MaxQueries == 1
MaxRunes == 2
MaxRuneWidth == 2
MaxBuf == 2
NumCursors == 2
NumChildren == 3
MaxLaterTime == 3

Keys == 1..NumKeys
LruValues == {[size |-> s] : s \in 1..MaxValSize}
NilValue == [size |-> 0]

\* ------------------------------------------------- container/list helpers
SeqRange(s) == {s[i] : i \in 1..Len(s)}

Without(s, e) == SelectSeq(s, LAMBDA x : x # e)

\* list.MoveToFront: a no-op when e is not an element of the list.
MoveToFront(l, e) == IF e \in SeqRange(l) THEN <<e>> \o Without(l, e) ELSE l

PushFront(l, e) == <<e>> \o l

\* list.Back: 0 stands for the nil element of an empty list.
Back(l) == IF Len(l) = 0 THEN 0 ELSE l[Len(l)]

\* A new list element: the least identity the heap does not hold.
NewElem(c) ==
    CHOOSE i \in 1..(Cardinality(DOMAIN c.elems) + 1) :
        /\ i \notin DOMAIN c.elems
        /\ \A j \in 1..(i - 1) : j \in DOMAIN c.elems

\* Elements no longer referenced by the list or the map are collected.
Collect(c) ==
    LET live == SeqRange(c.ll) \cup {c.cache[k] : k \in DOMAIN c.cache}
    IN  [c EXCEPT !.elems = [i \in live |-> c.elems[i]]]

\* ------------------------------------------------ the File and Dir methods
\* File.maxEntries
FileMaxEntries(c) == c.entries > 0 /\ c.size >= c.entries

\* lru.Cache.Len
LruLen(c) == IF c.nil THEN 0 ELSE Len(c.ll)

\* Dir.maxEntries
DirMaxEntries(c) == c.maxSize > 0 /\ LruLen(c) > c.maxSize

\* File.onAdded
onAdded(c, key, value) == [c EXCEPT !.size = @ + value.size]

\* File.onEvicted
onEvicted(c, key, value) == [c EXCEPT !.size = @ - value.size]

\* ------------------------------------------------------------- lru.Cache
\* c.MaxEntries != nil && c.MaxEntries(c)
MaxEntries(c) ==
    CASE c.MaxEntries = "nil" -> FALSE
      [] c.MaxEntries = "File.maxEntries" -> FileMaxEntries(c)
      [] c.MaxEntries = "Dir.maxEntries" -> DirMaxEntries(c)

\* if c.OnAdded != nil { c.OnAdded(key, value) }
CallOnAdded(c, key, value) ==
    IF c.OnAdded = "nil" THEN c
    ELSE LET d == onAdded(c, key, value)
         IN  IF c.probe THEN [d EXCEPT !.addlog[value] = @ + 1] ELSE d

\* if c.OnEvicted != nil { c.OnEvicted(key, value) }
CallOnEvicted(c, key, value) ==
    IF c.OnEvicted = "nil" THEN c
    ELSE LET d == onEvicted(c, key, value)
         IN  IF c.probe THEN [d EXCEPT !.evlog[value] = @ + 1] ELSE d

removeElementNoDelete(c, e) ==
    LET kv == c.elems[e]
        d  == [c EXCEPT !.ll = Without(c.ll, e)]
    IN  Collect(CallOnEvicted(d, kv.key, kv.value))

removeElementNoListener(c, e) ==
    LET kv == c.elems[e]
        d  == [c EXCEPT !.ll = Without(c.ll, e),
                        !.cache = [k \in DOMAIN c.cache \ {kv.key} |-> c.cache[k]]]
    IN  Collect(d)

removeElement(c, e) ==
    LET kv == c.elems[e]
        d  == [c EXCEPT !.ll = Without(c.ll, e),
                        !.cache = [k \in DOMAIN c.cache \ {kv.key} |-> c.cache[k]]]
    IN  Collect(CallOnEvicted(d, kv.key, kv.value))

RemoveOldest(c) ==
    IF c.nil THEN c
    ELSE IF Back(c.ll) # 0 THEN removeElement(c, Back(c.ll)) ELSE c

Remove(c, key) ==
    IF c.nil THEN c
    ELSE IF key \in DOMAIN c.cache THEN removeElement(c, c.cache[key]) ELSE c

GetNoPromote(c, key) ==
    IF c.nil THEN [c |-> c, value |-> NilValue, ok |-> FALSE]
    ELSE IF key \in DOMAIN c.cache
         THEN [c |-> c, value |-> c.elems[c.cache[key]].value, ok |-> TRUE]
         ELSE [c |-> c, value |-> NilValue, ok |-> FALSE]

Get(c, key) ==
    IF c.nil THEN [c |-> c, value |-> NilValue, ok |-> FALSE]
    ELSE IF key \in DOMAIN c.cache
         THEN [c     |-> [c EXCEPT !.ll = MoveToFront(c.ll, c.cache[key])],
               value |-> c.elems[c.cache[key]].value,
               ok    |-> TRUE]
         ELSE [c |-> c, value |-> NilValue, ok |-> FALSE]

\* for c.MaxEntries(c) && c.ll.Len() > 0 { c.RemoveOldest() }
RECURSIVE EvictLoop(_)
EvictLoop(c) ==
    IF MaxEntries(c) /\ Len(c.ll) > 0 THEN EvictLoop(RemoveOldest(c)) ELSE c

\* The lazy allocation at the top of Add.
AddInit(c) == IF c.nil THEN [c EXCEPT !.nil = FALSE, !.ll = <<>>, !.cache = <<>>,
                                      !.elems = <<>>]
              ELSE c

\* A replacement that does not tell the eviction listener.
AddExistingSilent(c, key, value) ==
    LET ee == c.cache[key]
        c1 == [c EXCEPT !.ll = MoveToFront(c.ll, ee)]
        c3 == CallOnAdded(c1, key, value)
    IN  [c3 EXCEPT !.elems[ee].value = value]

\* Add's branch for a key already present.
AddExisting(c, key, value) ==
    LET ee == c.cache[key]
        c1 == [c EXCEPT !.ll = MoveToFront(c.ll, ee)]
        c2 == CallOnEvicted(c1, key, c1.elems[ee].value)
        c3 == CallOnAdded(c2, key, value)
    IN  [c3 EXCEPT !.elems[ee].value = value]

\* Add's insertion of a new key, before the bound is looked at.
AddInsert(c, key, value) ==
    LET c1  == CallOnAdded(c, key, value)
        ele == NewElem(c1)
    IN  [c1 EXCEPT !.ll = PushFront(c1.ll, ele),
                   !.elems = [i \in DOMAIN c1.elems \cup {ele} |->
                                 IF i = ele THEN [key |-> key, value |-> value]
                                 ELSE c1.elems[i]],
                   !.cache = [k \in DOMAIN c1.cache \cup {key} |->
                                 IF k = key THEN ele ELSE c1.cache[k]]]

AddEvictOnce(c) == IF MaxEntries(c) THEN RemoveOldest(c) ELSE c

\* Add's eviction after the insertion of a new key.
AddEvict(c) == IF MaxEntries(c) THEN EvictLoop(RemoveOldest(c)) ELSE c

Add(c, key, value) ==
    LET c0 == AddInit(c)
    IN  IF key \in DOMAIN c0.cache THEN AddExisting(c0, key, value)
        ELSE AddEvict(AddInsert(c0, key, value))

\* Clear calls OnEvicted for every entry of the map, in the map's order; the
\* listeners' effects commute, so one order stands for all.
RECURSIVE ClearNotify(_, _)
ClearNotify(c, ks) ==
    IF ks = {} THEN c
    ELSE LET k == CHOOSE x \in ks : TRUE
             kv == c.elems[c.cache[k]]
         IN  ClearNotify(CallOnEvicted(c, kv.key, kv.value), ks \ {k})

Clear(c) ==
    LET d == ClearNotify(c, DOMAIN c.cache)
    IN  [d EXCEPT !.nil = TRUE, !.ll = <<>>, !.cache = <<>>, !.elems = <<>>]

\* lru.New(maxEntries) when isNil is FALSE, the zero value Cache{} when it is
\* TRUE; hooks tells whether the owner's lazyInit has stored its listeners.
NewCache(isNil, maxEntries, hooks, size, entries, maxSize, probe) ==
    [nil |-> isNil, ll |-> <<>>, cache |-> <<>>, elems |-> <<>>,
     MaxEntries |-> maxEntries,
     OnAdded |-> IF hooks THEN "File.onAdded" ELSE "nil",
     OnEvicted |-> IF hooks THEN "File.onEvicted" ELSE "nil",
     size |-> size, entries |-> entries, maxSize |-> maxSize,
     probe |-> probe,
     evlog |-> [v \in LruValues |-> 0], addlog |-> [v \in LruValues |-> 0]]

\* The keys a caller can observe in the cache, and the values it can observe.
LiveKeys(c) == {k \in Keys : Get(c, k).ok}

LiveCount(c, v) == Cardinality({k \in LiveKeys(c) : Get(c, k).value = v})

\* The keys in the order in which successive RemoveOldest calls remove them.
RECURSIVE DrainOrder(_)
DrainOrder(c) ==
    IF LruLen(c) = 0 \/ Back(c.ll) = 0 THEN <<>>
    ELSE <<c.elems[Back(c.ll)].key>> \o DrainOrder(RemoveOldest(c))

\* n successive RemoveOldest calls.
RECURSIVE Drain(_, _)
Drain(c, n) == IF n = 0 THEN c ELSE Drain(RemoveOldest(c), n - 1)

VARIABLES lru, lruPrev, lruOp, lruSteps, lruIns,
          q, dpc, dret, calls, dout,
          fin, mpc, spawned, recvd, fret, wpc, whold, wres, sent, gate, done, ch,
          use, disk, ddisk, mods, fcache, dcache, tpc, tl, tret, ncalls, hist,
          oq, opc, ob, ores,
          mu, lpc, lop,
          rbuf, rd, rret,
          rlbuild, rllive, rlpc, rlnames, rlerr, rlk, rlfis, rlskip, rlret

lruVars == <<lru, lruPrev, lruOp, lruSteps, lruIns>>

defVars == <<q, dpc, dret, calls, dout>>

findVars == <<fin, mpc, spawned, recvd, fret, wpc, whold, wres, sent, gate, done, ch>>

cacheVars == <<use, disk, ddisk, mods, fcache, dcache, tpc, tl, tret, ncalls, hist>>

offVars == <<oq, opc, ob, ores>>

lockVars == <<mu, lpc, lop>>

readerVars == <<rbuf, rd, rret>>

listVars == <<rlbuild, rllive, rlpc, rlnames, rlerr, rlk, rlfis, rlskip, rlret>>

vars == <<lruVars, defVars, findVars, cacheVars, offVars, lockVars, readerVars, listVars>>

Paths == 1..NumPaths

Dirs == 1..NumDirs

Threads == 1..NumThreads

\* No cache entry: the nil *fileEntry or *dirEntry.
NoEntry == [data |-> 0, modTime |-> 0, size |-> 0]

\* The nil os.FileInfo.
NoStat == [nil |-> TRUE, modTime |-> 0, size |-> 0]

\* No overlay: the empty map of modified files.
NoOverlay == [path |-> 0, body |-> 0]

NoLocals == [op |-> "none", path |-> 0, e |-> NoEntry, ok |-> FALSE, fi |-> NoStat,
             err |-> FALSE, b |-> 0, modified |-> NoOverlay]

NoReturn == [t |-> 0, op |-> "none", path |-> 0, data |-> 0, err |-> FALSE, via |-> "none"]

\* What has been seen of the File so far, when it is being recorded (on):
\* seen[p] is the latest modification time cached for p, began[t] the content
\* that p had on disk when thread t made its call.
NoHist == [on |-> FALSE, seen |-> [p \in Paths |-> 0], began |-> [t \in Threads |-> 0]]

\* The caches are not in use.
IdleCache ==
    /\ use = "none"
    /\ disk = [p \in Paths |-> [exists |-> FALSE, data |-> 0, modTime |-> 0, size |-> 0]]
    /\ ddisk = [d \in Dirs |-> [exists |-> FALSE, data |-> 0, modTime |-> 0, size |-> 0]]
    /\ mods = 0
    /\ fcache = NewCache(TRUE, "nil", FALSE, 0, 0, 0, FALSE)
    /\ dcache = NewCache(TRUE, "nil", FALSE, 0, 0, 0, FALSE)
    /\ tpc = [t \in Threads |-> "idle"]
    /\ tl = [t \in Threads |-> NoLocals]
    /\ tret = NoReturn
    /\ ncalls = 0
    /\ hist = NoHist

Files == 1..NumFiles

NoOp == [op |-> "none", key |-> 0, value |-> NilValue, ok |-> FALSE]

\* What the type checker has met, before it has run.
NoTc == [importOk |-> FALSE, loadOk |-> FALSE, qposOk |-> FALSE, isIdent |-> FALSE,
         uses |-> "nil", defs |-> "nil"]

NoQuery == [fastOk |-> FALSE, isIdent |-> FALSE, objValid |-> FALSE, selSel |-> FALSE,
            exported |-> FALSE, xIdent |-> FALSE, xObjNil |-> FALSE, imported |-> FALSE,
            builtin |-> FALSE, tc |-> NoTc]

NoResult == [err |-> "nil", pos |-> "none", tok |-> "nil", file |-> 0, descr |-> "none"]

\* The nil *result a worker sends.
NilRes == [tok |-> "nil", file |-> 0]

\* What parsing a candidate file and scanning its declarations can give.
ParseOutcomes == {"nil", "none", "var", "type", "func"}

Failure(e) == [err |-> e, pos |-> "none", tok |-> "nil", file |-> 0, descr |-> "none"]

\* No lru client is running.
IdleLRU ==
    /\ lru = NewCache(TRUE, "nil", FALSE, 0, 0, 0, FALSE)
    /\ lruPrev = lru
    /\ lruOp = NoOp
    /\ lruSteps = 0
    /\ lruIns = [v \in LruValues |-> 0]

\* findPackageMember has not been called.
IdleFind ==
    /\ fin = [importOk |-> FALSE, n |-> 0, parse |-> [w \in Files |-> "nil"]]
    /\ mpc = "idle"
    /\ spawned = 0
    /\ recvd = 0
    /\ fret = NoResult
    /\ wpc = [w \in Files |-> "unspawned"]
    /\ whold = [w \in Files |-> FALSE]
    /\ wres = [w \in Files |-> NilRes]
    /\ sent = [w \in Files |-> 0]
    /\ gate = 0
    /\ done = FALSE
    /\ ch = <<>>

\* The zero Position, and what Define has returned before it returns.
NoPosition == [Filename |-> 0, Line |-> 0, Column |-> 0]

NoOutput == [pos |-> NoPosition, b |-> "nil", err |-> "nil", read |-> "none"]

\* No query is running.
IdleDef ==
    /\ q = NoQuery
    /\ dout = NoOutput
    /\ dpc = "idle"
    /\ dret = NoResult
    /\ calls = [fast |-> 0, find |-> 0, load |-> 0]
    /\ IdleFind

\* No offsets are being checked.
NoOffsets == [entry |-> "none", kind |-> "nil", content |-> <<>>, fileOk |-> FALSE,
              parse |-> "nil", start |-> 0, end |-> 0]

IdleOffset ==
    /\ oq = NoOffsets
    /\ opc = "idle"
    /\ ob = [body |-> <<>>, start |-> 0, end |-> 0]
    /\ ores = "none"

\* No thread is in a call whose locking is followed.
IdleLock ==
    /\ mu = [c \in {"File", "Dir"} |-> 0]
    /\ lpc = [t \in Threads |-> "none"]
    /\ lop = [t \in Threads |-> "none"]

Cursors == 1..NumCursors

NoRet == [op |-> "none", cur |-> 0, n |-> 0, err |-> "nil", data |-> <<>>, werr |-> "nil"]

IdleReader ==
    /\ rbuf = <<>>
    /\ rd = [c \in Cursors |-> [open |-> FALSE, i |-> 0]]
    /\ rret = NoRet

Children == 1..NumChildren

NoListing == [fis |-> <<>>, err |-> "nil"]

IdleList ==
    /\ rlbuild = "unix"
    /\ rllive = {}
    /\ rlpc = "idle"
    /\ rlnames = <<>>
    /\ rlerr = FALSE
    /\ rlk = 0
    /\ rlfis = <<>>
    /\ rlskip = {}
    /\ rlret = NoListing

\* Nothing but the lru client is running.
IdleButLRU == IdleDef /\ IdleCache /\ IdleOffset /\ IdleLock /\ IdleReader /\ IdleList

\* ------------------------------------------- a client of one lru.Cache
\* lru is the cache, lruPrev the cache before the last call, lruOp the last
\* call with its result, lruIns the number of Add calls made with each value.
InitLRU ==
    /\ \E isNil \in BOOLEAN, me \in {"nil", "File.maxEntries", "Dir.maxEntries"},
          lim \in 1..MaxLimit :
          lru = NewCache(isNil, me, TRUE, 0, lim, lim, TRUE)
    /\ lruPrev = lru
    /\ lruOp = NoOp
    /\ lruSteps = 0
    /\ lruIns = [v \in LruValues |-> 0]
    /\ IdleButLRU

LruAdd(k, v) ==
    /\ lru' = Add(lru, k, v)
    /\ lruOp' = [op |-> "Add", key |-> k, value |-> v, ok |-> TRUE]
    /\ lruIns' = [lruIns EXCEPT ![v] = @ + 1]

LruGet(k) ==
    /\ lru' = Get(lru, k).c
    /\ lruOp' = [op |-> "Get", key |-> k, value |-> Get(lru, k).value,
                 ok |-> Get(lru, k).ok]
    /\ UNCHANGED lruIns

LruRemove(k) ==
    /\ lru' = Remove(lru, k)
    /\ lruOp' = [op |-> "Remove", key |-> k, value |-> NilValue, ok |-> TRUE]
    /\ UNCHANGED lruIns

LruRemoveOldest ==
    /\ lru' = RemoveOldest(lru)
    /\ lruOp' = [op |-> "RemoveOldest", key |-> 0, value |-> NilValue, ok |-> TRUE]
    /\ UNCHANGED lruIns

LruClear ==
    /\ lru' = Clear(lru)
    /\ lruOp' = [op |-> "Clear", key |-> 0, value |-> NilValue, ok |-> TRUE]
    /\ UNCHANGED lruIns

NextLRU ==
    /\ lruSteps < MaxOps
    /\ lruSteps' = lruSteps + 1
    /\ lruPrev' = lru
    /\ UNCHANGED <<defVars, findVars, cacheVars, offVars, lockVars, readerVars, listVars>>
    /\ \/ \E k \in Keys, v \in LruValues : LruAdd(k, v)
       \/ \E k \in Keys : LruGet(k)
       \/ \E k \in Keys : LruRemove(k)
       \/ LruRemoveOldest
       \/ LruClear

SpecLRU == InitLRU /\ [][NextLRU]_vars

\* ------------------------------------------------------ lru.Cache, checked
\* C7: after any sequence of Add, Get, Remove, RemoveOldest and Clear, on a
\* cache made by New or used from its zero value, Len() is the number of
\* distinct live keys, and the key map and the recency list hold exactly the
\* same entries, each once and under its own key.
C7_LenIsLiveKeys ==
    /\ LruLen(lru) = Cardinality(LiveKeys(lru))
    /\ SeqRange(lru.ll) = {lru.cache[k] : k \in DOMAIN lru.cache}
    /\ Cardinality(SeqRange(lru.ll)) = Len(lru.ll)
    /\ \A k \in DOMAIN lru.cache : lru.elems[lru.cache[k]].key = k
    /\ lru.nil => lru.ll = <<>> /\ DOMAIN lru.cache = {}

\* A removal from a cache of three entries has left two.
C7_Witness ==
    /\ lruOp.op \in {"Remove", "RemoveOldest"}
    /\ LruLen(lruPrev) = 3
    /\ LruLen(lru) = 2

\* C8: OnEvicted has been called exactly once for each value that has left
\* the cache (by Remove, RemoveOldest, the bound's eviction in Add, the
\* replacement of a key's value, or Clear) and never for a value still in it:
\* for every value, the calls made with it are the Adds made with it less the
\* entries that hold it now.
C8_EvictedOncePerLeave ==
    \A v \in LruValues : lru.evlog[v] = lruIns[v] - LiveCount(lru, v)

\* Add has replaced the value of a present key, and the old value was notified.
C8_Witness ==
    /\ lruOp.op = "Add"
    /\ lruOp.key \in LiveKeys(lruPrev)
    /\ Get(lruPrev, lruOp.key).value # lruOp.value
    /\ lru.evlog[Get(lruPrev, lruOp.key).value] >= 1
    /\ LruLen(lru) >= 2

\* C9: Get on a present key returns its current value and makes the key the
\* last one that successive RemoveOldest calls remove, the order of the other
\* entries unchanged; Get on an absent key changes nothing.
C9_GetPromotes ==
    lruOp.op = "Get" =>
        IF ~lruPrev.nil /\ lruOp.key \in DOMAIN lruPrev.cache
        THEN /\ lruOp.ok
             /\ lruOp.value = lruPrev.elems[lruPrev.cache[lruOp.key]].value
             /\ DrainOrder(lru) = Without(DrainOrder(lruPrev), lruOp.key) \o <<lruOp.key>>
             /\ [lru EXCEPT !.ll = lruPrev.ll] = lruPrev
        ELSE ~lruOp.ok /\ lru = lruPrev

\* Get has promoted the least recently used of three entries.
C9_Witness ==
    /\ lruOp.op = "Get"
    /\ lruOp.ok
    /\ LruLen(lruPrev) = 3
    /\ DrainOrder(lruPrev)[1] = lruOp.key
    /\ DrainOrder(lru)[3] = lruOp.key

\* C10: when Add inserts a new key, it then removes entries one at a time in
\* least-recently-used order, and stops exactly when MaxEntries is false or
\* the cache is empty; with MaxEntries nil or false after the insertion it
\* evicts nothing.
C10_AddEvictsUntilBound ==
    (lruOp.op = "Add" /\ lruOp.key \notin LiveKeys(lruPrev)) =>
        LET ins   == AddInsert(AddInit(lruPrev), lruOp.key, lruOp.value)
            order == DrainOrder(ins)
        IN  \E n \in 0..LruLen(ins) :
                /\ lru = Drain(ins, n)
                /\ DrainOrder(lru) = SubSeq(order, n + 1, Len(order))
                /\ \A j \in 0..(n - 1) : MaxEntries(Drain(ins, j))
                /\ ~MaxEntries(lru) \/ LruLen(lru) = 0

\* An Add of a new key has evicted two entries, the new one included.
C10_Witness ==
    /\ lruOp.op = "Add"
    /\ lruOp.key \notin LiveKeys(lruPrev)
    /\ LruLen(lruPrev) = 1
    /\ LruLen(lru) = 0
    /\ lru.MaxEntries = "File.maxEntries"

\* --------------------------------------------------------- definition
\* q is what the parser found at the query position:
\*   fastOk    fastQueryPos returned a queryPos
\*   isIdent   path[0] is an identifier
\*   objValid  id.Obj != nil && id.Obj.Pos().IsValid()
\*   selSel    path[1] is a selector expression whose Sel is id
\*   exported  ast.IsExported(id.Name)
\*   xIdent    sel.X is an identifier
\*   xObjNil   that identifier's Obj is nil
\*   imported  an import of the file is named, or ends in, that identifier
\*   builtin   the identifier is bound to a predeclared object, one without a
\*             valid position (len, int, the members of package unsafe)
\*   tc        what the type checker met, once it has run
\* dpc is definition's position, dret its result, calls the number of times
\* each tier has been entered.

\* A classifier that does not look at the case of the name.
packageForQualIdentAnyName(qq) ==
    qq.selSel /\ qq.xIdent /\ qq.xObjNil /\ qq.imported

\* packageForQualIdent(path, id) != ""
packageForQualIdent(qq) ==
    qq.selSel /\ qq.exported /\ qq.xIdent /\ qq.xObjNil /\ qq.imported

\* What definition does with findPackageMember's result, swallowing an error.
AfterFindSwallow(r) ==
    IF r.err # "nil" THEN [dpc |-> "typecheck", dret |-> NoResult]
    ELSE [dpc |-> "done", dret |-> r]

\* What definition does with findPackageMember's result.
AfterFind(r) ==
    IF r.err # "nil" THEN [dpc |-> "done", dret |-> r]
    ELSE [dpc |-> "done", dret |-> r]

\* The object the type checker reports: qpos.info.Uses[id], else Defs[id].
Binding(tc) == IF tc.uses # "nil" THEN tc.uses ELSE tc.defs

\* The type-checker tier without the check of the object's position.
TypeCheckResultAnyPos(tc) ==
    IF ~tc.importOk THEN Failure("import")
    ELSE IF ~tc.loadOk THEN Failure("load")
    ELSE IF ~tc.qposOk THEN Failure("querypos")
    ELSE IF ~tc.isIdent THEN Failure("no identifier here")
    ELSE IF Binding(tc) = "nil"
         THEN Failure("no object for identifier")
         ELSE [err |-> "nil", pos |-> IF tc.uses # "nil" THEN "use" ELSE "def",
               tok |-> "nil", file |-> 0, descr |-> "objectString"]

\* The type-checker tier of definition, on what the loader reports.
TypeCheckResult(tc) ==
    IF ~tc.importOk THEN Failure("import")
    ELSE IF ~tc.loadOk THEN Failure("load")
    ELSE IF ~tc.qposOk THEN Failure("querypos")
    ELSE IF ~tc.isIdent THEN Failure("no identifier here")
    ELSE LET obj == Binding(tc)
         IN  IF obj = "nil"
             THEN Failure("no object for identifier")
             ELSE IF obj = "builtin"
             THEN Failure("is built in")
             ELSE [err |-> "nil", pos |-> IF tc.uses # "nil" THEN "use" ELSE "def",
                   tok |-> "nil", file |-> 0, descr |-> "objectString"]

InitDef ==
    /\ q \in [fastOk : BOOLEAN, isIdent : BOOLEAN, objValid : BOOLEAN,
              selSel : BOOLEAN, exported : BOOLEAN, xIdent : BOOLEAN,
              xObjNil : BOOLEAN, imported : BOOLEAN, builtin : BOOLEAN, tc : {NoTc}]
    /\ ~(q.builtin /\ q.objValid)
    /\ dpc = "fast"
    /\ dret = NoResult
    /\ dout = NoOutput
    /\ calls = [fast |-> 0, find |-> 0, load |-> 0]
    /\ IdleFind
    /\ IdleLRU
    /\ IdleCache
    /\ IdleOffset
    /\ IdleLock
    /\ IdleReader
    /\ IdleList

\* A fast path that never takes the parser's object.
LocalObjectNever(qq) == FALSE

\* Did the parser resolve it to a local object?
LocalObject(qq) == qq.objValid

\* A fast path that takes every node at the position for an identifier.
NoIdentifierNever(qq) == FALSE

\* id, _ := qpos.path[0].(*ast.Ident); id == nil
NoIdentifier(qq) == ~qq.isIdent

\* The fast path of definition, up to the call of findPackageMember.
DefFast ==
    /\ dpc = "fast"
    /\ calls' = [calls EXCEPT !.fast = @ + 1,
                              !.find = IF q.fastOk /\ q.isIdent /\ ~LocalObject(q)
                                          /\ packageForQualIdent(q)
                                       THEN @ + 1 ELSE @]
    /\ IF ~q.fastOk
       THEN /\ dpc' = "done"
            /\ dret' = Failure("querypos")
            /\ UNCHANGED mpc
       ELSE IF NoIdentifier(q)
       THEN /\ dpc' = "done"
            /\ dret' = Failure("no identifier here")
            /\ UNCHANGED mpc
       ELSE IF LocalObject(q)
       THEN /\ dpc' = "done"
            /\ dret' = [err |-> "nil", pos |-> "local", tok |-> "nil", file |-> 0,
                        descr |-> "kind name"]
            /\ UNCHANGED mpc
       ELSE IF packageForQualIdent(q)
       THEN /\ dpc' = "find"
            /\ mpc' = "import"
            /\ UNCHANGED dret
       ELSE /\ dpc' = "typecheck"
            /\ UNCHANGED <<dret, mpc>>
    /\ UNCHANGED <<dout, q, fin, spawned, recvd, fret, wpc, whold, wres, sent, gate, done, ch>>
    /\ UNCHANGED <<lruVars, cacheVars, offVars, lockVars, readerVars, listVars>>

\* The type checker: importQueryPackage, Load, parseQueryPos and the lookup
\* in Uses and Defs.
DefTypeCheck ==
    /\ dpc = "typecheck"
    /\ calls' = [calls EXCEPT !.load = @ + 1]
    /\ \E tc \in [importOk : BOOLEAN, loadOk : BOOLEAN, qposOk : BOOLEAN,
                  isIdent : BOOLEAN, uses : {"nil", "builtin", "obj"},
                  defs : {"nil", "builtin", "obj"}] :
          /\ (Binding(tc) = "builtin") = q.builtin
          /\ dret' = TypeCheckResult(tc)
          /\ q' = [q EXCEPT !.tc = tc]
    /\ dpc' = "done"
    /\ UNCHANGED <<dout, findVars, lruVars, cacheVars, offVars, lockVars, readerVars, listVars>>

\* ------------------------------------------------- findPackageMember
\* fin is what the call meets: whether ctxt.Import succeeds, the number n of
\* bp.GoFiles, and for each file what parsing and scanning it gives ("nil":
\* ParseFile returns no file, "none": no package-level declaration of the
\* member, "var": a const or var of that name, "type": a type, "func": a
\* function without receiver).
\* mpc is the calling goroutine's position, spawned the workers started,
\* recvd the results received, fret the function's result.
\* For worker w: wpc its position, whold whether it holds a gate slot, wres the
\* value it is about to send, sent the number
\* of values it has sent. gate and ch are the channels' contents, done whether
\* done is closed.

\* The case <-done of the worker's select can be taken.
DoneReadyAlways == TRUE

DoneReady == done

\* bp, err := ctxt.Import(pkg, srcdir, 0), and the making of the channels.
FindImport ==
    /\ mpc = "import"
    /\ \E ok \in BOOLEAN, n \in 0..NumFiles, pr \in [Files -> ParseOutcomes] :
          /\ \A w \in Files : (~ok \/ w > n) => pr[w] = "nil"
          /\ ~ok => n = 0
          /\ fin' = [importOk |-> ok, n |-> n, parse |-> pr]
          /\ IF ok
             THEN /\ mpc' = "spawn"
                  /\ UNCHANGED <<fret, dpc, dret>>
             ELSE /\ mpc' = "returned"
                  /\ fret' = Failure("import")
                  /\ dpc' = AfterFind(fret').dpc
                  /\ dret' = AfterFind(fret').dret
    /\ UNCHANGED <<dout, q, calls, spawned, recvd, wpc, whold, wres, sent, gate, done, ch>>
    /\ UNCHANGED <<lruVars, cacheVars, offVars, lockVars, readerVars, listVars>>

\* for _, fname := range bp.GoFiles { go func(fname string) {...}(fname) }
FindSpawn ==
    /\ mpc = "spawn"
    /\ IF spawned < fin.n
       THEN /\ spawned' = spawned + 1
            /\ wpc' = [wpc EXCEPT ![spawned + 1] = "select"]
            /\ UNCHANGED mpc
       ELSE /\ mpc' = "collect"
            /\ UNCHANGED <<spawned, wpc>>
    /\ UNCHANGED <<dout, q, dpc, dret, calls, fin, recvd, fret, whold, wres, sent, gate, done, ch>>
    /\ UNCHANGED <<lruVars, cacheVars, offVars, lockVars, readerVars, listVars>>

WorkerAcquireUnbounded(w) ==
    /\ wpc[w] = "select"
    /\ gate' = gate + 1
    /\ whold' = [whold EXCEPT ![w] = TRUE]
    /\ wpc' = [wpc EXCEPT ![w] = "parse"]
    /\ UNCHANGED <<dout, q, dpc, dret, calls, fin, mpc, spawned, recvd, fret, wres, sent, done, ch>>
    /\ UNCHANGED <<lruVars, cacheVars, offVars, lockVars, readerVars, listVars>>

\* select { case gate <- struct{}{}: ... }, and the deferred release is set up.
WorkerAcquire(w) ==
    /\ wpc[w] = "select"
    /\ gate < GateCap
    /\ gate' = gate + 1
    /\ whold' = [whold EXCEPT ![w] = TRUE]
    /\ wpc' = [wpc EXCEPT ![w] = "parse"]
    /\ UNCHANGED <<dout, q, dpc, dret, calls, fin, mpc, spawned, recvd, fret, wres, sent, done, ch>>
    /\ UNCHANGED <<lruVars, cacheVars, offVars, lockVars, readerVars, listVars>>

WorkerCancelledNoSend(w) ==
    /\ wpc[w] = "select"
    /\ DoneReady
    /\ wpc' = [wpc EXCEPT ![w] = "exited"]
    /\ UNCHANGED <<dout, q, dpc, dret, calls, fin, mpc, spawned, recvd, fret, whold, wres, sent, gate, done, ch>>
    /\ UNCHANGED <<lruVars, cacheVars, offVars, lockVars, readerVars, listVars>>

\* A worker that sees done closed and goes on to parse all the same.
WorkerCancelledParses(w) ==
    /\ wpc[w] = "select"
    /\ DoneReady
    /\ wpc' = [wpc EXCEPT ![w] = "parse"]
    /\ UNCHANGED <<dout, q, dpc, dret, calls, fin, mpc, spawned, recvd, fret, whold, wres, sent, gate, done, ch>>
    /\ UNCHANGED <<lruVars, cacheVars, offVars, lockVars, readerVars, listVars>>

\* select { ... case <-done: ch <- nil; return }, up to the send.
WorkerCancelled(w) ==
    /\ wpc[w] = "select"
    /\ DoneReady
    /\ wres' = [wres EXCEPT ![w] = NilRes]
    /\ wpc' = [wpc EXCEPT ![w] = "send"]
    /\ UNCHANGED <<dout, q, dpc, dret, calls, fin, mpc, spawned, recvd, fret, whold, sent, gate, done, ch>>
    /\ UNCHANGED <<lruVars, cacheVars, offVars, lockVars, readerVars, listVars>>

\* A scan of the declarations without the case of *ast.FuncDecl.
ScanDeclsNoFunc(w) ==
    IF fin.parse[w] \in {"nil", "none", "func"} THEN NilRes
    ELSE [tok |-> fin.parse[w], file |-> w]

\* The worker's result: nil when there is no file or no declaration of the
\* member, else the token of the declaration and its position.
ScanDecls(w) ==
    IF fin.parse[w] \in {"nil", "none"} THEN NilRes
    ELSE [tok |-> fin.parse[w], file |-> w]

WorkerParseNilExits(w) ==
    /\ wpc[w] = "parse"
    /\ wres' = [wres EXCEPT ![w] = ScanDecls(w)]
    /\ wpc' = [wpc EXCEPT ![w] = IF fin.parse[w] = "nil" THEN "release" ELSE "send"]
    /\ UNCHANGED <<dout, q, dpc, dret, calls, fin, mpc, spawned, recvd, fret, whold, sent, gate, done, ch>>
    /\ UNCHANGED <<lruVars, cacheVars, offVars, lockVars, readerVars, listVars>>

\* buildutil.ParseFile and the scan of f.Decls, up to the send of the result.
WorkerParse(w) ==
    /\ wpc[w] = "parse"
    /\ wres' = [wres EXCEPT ![w] = ScanDecls(w)]
    /\ wpc' = [wpc EXCEPT ![w] = "send"]
    /\ UNCHANGED <<dout, q, dpc, dret, calls, fin, mpc, spawned, recvd, fret, whold, sent, gate, done, ch>>
    /\ UNCHANGED <<lruVars, cacheVars, offVars, lockVars, readerVars, listVars>>

\* ch <- r; return. The send waits while the channel is full.
\* The send on a channel that holds one result only.
WorkerSendSmallBuffer(w) ==
    /\ wpc[w] = "send"
    /\ Len(ch) < 1
    /\ ch' = Append(ch, wres[w])
    /\ sent' = [sent EXCEPT ![w] = @ + 1]
    /\ wpc' = [wpc EXCEPT ![w] = IF whold[w] THEN "release" ELSE "exited"]
    /\ UNCHANGED <<dout, q, dpc, dret, calls, fin, mpc, spawned, recvd, fret, whold, wres, gate, done>>
    /\ UNCHANGED <<lruVars, cacheVars, offVars, lockVars, readerVars, listVars>>

\* ch <- r on ch := make(chan *result, len(bp.GoFiles))
WorkerSend(w) ==
    /\ wpc[w] = "send"
    /\ Len(ch) < fin.n
    /\ ch' = Append(ch, wres[w])
    /\ sent' = [sent EXCEPT ![w] = @ + 1]
    /\ wpc' = [wpc EXCEPT ![w] = IF whold[w] THEN "release" ELSE "exited"]
    /\ UNCHANGED <<dout, q, dpc, dret, calls, fin, mpc, spawned, recvd, fret, whold, wres, gate, done>>
    /\ UNCHANGED <<lruVars, cacheVars, offVars, lockVars, readerVars, listVars>>

\* defer func() { <-gate }()
WorkerRelease(w) ==
    /\ wpc[w] = "release"
    /\ gate > 0
    /\ gate' = gate - 1
    /\ whold' = [whold EXCEPT ![w] = FALSE]
    /\ wpc' = [wpc EXCEPT ![w] = "exited"]
    /\ UNCHANGED <<dout, q, dpc, dret, calls, fin, mpc, spawned, recvd, fret, wres, sent, done, ch>>
    /\ UNCHANGED <<lruVars, cacheVars, offVars, lockVars, readerVars, listVars>>

\* One turn of the collection loop, and the return it may lead to.
FindCollect ==
    /\ mpc = "collect"
    /\ IF recvd < fin.n
       THEN /\ Len(ch) > 0
            /\ ch' = Tail(ch)
            /\ recvd' = recvd + 1
            /\ IF Head(ch) # NilRes
               THEN /\ done' = TRUE
                    /\ fret' = [err |-> "nil", pos |-> "member", tok |-> Head(ch).tok,
                                file |-> Head(ch).file, descr |-> "tok pkg.member"]
                    /\ mpc' = "returned"
                    /\ dpc' = AfterFind(fret').dpc
                    /\ dret' = AfterFind(fret').dret
               ELSE UNCHANGED <<done, fret, mpc, dpc, dret>>
       ELSE /\ fret' = Failure("couldn't find declaration")
            /\ mpc' = "returned"
            /\ dpc' = AfterFind(fret').dpc
            /\ dret' = AfterFind(fret').dret
            /\ UNCHANGED <<ch, recvd, done>>
    /\ UNCHANGED <<dout, q, calls, fin, spawned, wpc, whold, wres, sent, gate>>
    /\ UNCHANGED <<lruVars, cacheVars, offVars, lockVars, readerVars, listVars>>

\* func (p Position) IsValid() bool
IsValid(p) == p.Line > 0

\* query.Fset.Position(query.result.pos): a line and a column, from 1, in the
\* file of the declaration.
Position(r) ==
    IF r.pos = "none" THEN NoPosition
    ELSE [Filename |-> r.file, Line |-> 1, Column |-> 1]

\* A Define that returns the position along with the error of the read.
DefineReturnKeepsPosition ==
    /\ dpc = "done"
    /\ dout = NoOutput
    /\ IF dret.err # "nil"
       THEN dout' = [pos |-> NoPosition, b |-> "nil", err |-> dret.err, read |-> "skipped"]
       ELSE \E readOk \in BOOLEAN :
              dout' = IF readOk
                      THEN [pos |-> Position(dret), b |-> "bytes", err |-> "nil",
                            read |-> "ok"]
                      ELSE [pos |-> Position(dret), b |-> "nil", err |-> "read",
                            read |-> "failed"]
    /\ UNCHANGED <<q, dpc, dret, calls, findVars, lruVars, cacheVars, offVars, lockVars, readerVars, listVars>>

\* Define after definition has returned: its error is returned, or the file of
\* the declaration is read from disk and returned with the position, or the
\* error of that read alone.
DefineReturn ==
    /\ dpc = "done"
    /\ dout = NoOutput
    /\ IF dret.err # "nil"
       THEN dout' = [pos |-> NoPosition, b |-> "nil", err |-> dret.err, read |-> "skipped"]
       ELSE \E readOk \in BOOLEAN :
              dout' = IF readOk
                      THEN [pos |-> Position(dret), b |-> "bytes", err |-> "nil",
                            read |-> "ok"]
                      ELSE [pos |-> NoPosition, b |-> "nil", err |-> "read",
                            read |-> "failed"]
    /\ UNCHANGED <<q, dpc, dret, calls, findVars, lruVars, cacheVars, offVars, lockVars, readerVars, listVars>>

NextDef ==
    \/ DefFast
    \/ DefineReturn
    \/ DefTypeCheck
    \/ FindImport
    \/ FindSpawn
    \/ FindCollect
    \/ \E w \in Files : WorkerAcquire(w)
    \/ \E w \in Files : WorkerCancelled(w)
    \/ \E w \in Files : WorkerParse(w)
    \/ \E w \in Files : WorkerSend(w)
    \/ \E w \in Files : WorkerRelease(w)

SpecDef == InitDef /\ [][NextDef]_vars

\* Every goroutine that can run is run in the end.
FairDef ==
    /\ WF_vars(DefFast) /\ WF_vars(DefTypeCheck) /\ WF_vars(DefineReturn)
    /\ WF_vars(FindImport) /\ WF_vars(FindSpawn) /\ WF_vars(FindCollect)
    /\ \A w \in Files :
          /\ WF_vars(WorkerAcquire(w) \/ WorkerCancelled(w))
          /\ WF_vars(WorkerParse(w))
          /\ WF_vars(WorkerSend(w))
          /\ WF_vars(WorkerRelease(w))

SpecDefFair == SpecDef /\ FairDef

\* ------------------------------------------ definition and findPackageMember, checked
\* The candidate files that declare the member.
Declaring == {w \in 1..fin.n : fin.parse[w] \notin {"nil", "none"}}

\* C1 as stated: when the identifier is a qualified one and findPackageMember
\* fails, the failure is swallowed and the type checker is still run.
C1_Original ==
    (dpc = "done" /\ mpc = "returned" /\ fret.err # "nil") => calls.load = 1

\* C1, amended: when findPackageMember fails, definition returns that error at
\* once and the type checker is not run for the query.
C1_FindErrorReturned ==
    (mpc = "returned" /\ fret.err # "nil") =>
        dpc = "done" /\ dret = fret /\ calls.load = 0

\* findPackageMember has failed to find the member in its two or more files.
C1_Witness ==
    /\ mpc = "returned"
    /\ fret.err = "couldn't find declaration"
    /\ fin.n >= 2
    /\ dpc = "done"

\* C3: when exactly one of the candidate files declares the member,
\* findPackageMember returns the token and the position of that declaration
\* and no error, however its workers are scheduled.
C3_UniqueMemberFound ==
    (mpc = "returned" /\ fin.importOk /\ Cardinality(Declaring) = 1) =>
        /\ fret.err = "nil"
        /\ fret.file \in Declaring
        /\ fret.tok = fin.parse[fret.file]

\* The one declaration, in the last of three files, was the last result received.
C3_Witness ==
    /\ mpc = "returned"
    /\ fin.n = 3
    /\ Declaring = {3}
    /\ recvd = 3
    /\ fret.file = 3

\* C4: every worker sends exactly one value on the result channel: none before
\* its send, one from then on, whether it was cancelled, got no file, found
\* the member or found nothing.
C4_OneSendPerWorker ==
    \A w \in Files :
        /\ wpc[w] \in {"unspawned", "select", "parse", "send"} => sent[w] = 0
        /\ wpc[w] \in {"release", "exited"} => sent[w] = 1

\* All three workers have exited, one of them cancelled before it parsed a
\* file that declares the member.
C4_Witness ==
    /\ fin.n = 3
    /\ \A w \in Files : wpc[w] = "exited"
    /\ \E w \in Declaring : wres[w] = NilRes

C6_GateBound ==
    /\ Cardinality({w \in Files : whold[w]}) <= GateCap
    /\ gate = Cardinality({w \in Files : whold[w]})
    /\ \A w \in Files :
          /\ wpc[w] \in {"parse", "release"} => whold[w]
          /\ wpc[w] \in {"unspawned", "select", "exited"} => ~whold[w]

\* The gate is full and a third worker waits for a slot.
C6_Witness ==
    /\ gate = GateCap
    /\ Cardinality({w \in Files : wpc[w] = "parse"}) = GateCap
    /\ \E w \in Files : wpc[w] = "select"

\* ------------------------------------------------ cache.File and cache.Dir
\* disk[p] is file p: whether it exists, its content (a version number), its
\* modification time and its size. ddisk[d] is directory d, data its listing
\* (a version number, 0 for an empty directory). mods counts the changes made
\* to the disk and the failures of Stat and of Read on an open file. fcache is
\* the File with its lru.Cache, dcache the Dir.
\* An entry of either cache is [data, modTime, size]: a fileEntry, or a
\* dirEntry with ents as data and no size.
\* Thread t is at tpc[t] in the call tl[t].op on tl[t].path, with the locals
\* e, ok (from get), fi, err (from Stat) and b (the bytes or listing read);
\* tret is the last return since the last call was made: the thread, the
\* call, what it returned and how; ncalls the calls so far.
\* The two caches share nothing, so a run exercises one of them: use says
\* which ("File" or "Dir").

\* fileEntry.same
sameNever(e, fi) == FALSE

sameNilOk(e, fi) == fi.nil \/ (e.size = fi.size /\ e.modTime = fi.modTime)

sameSizeOnly(e, fi) == ~fi.nil /\ e.size = fi.size

same(e, fi) == ~fi.nil /\ e.size = fi.size /\ e.modTime = fi.modTime

\* time.Time.After
AfterNever(a, b) == FALSE

After(a, b) == a > b

\* os.Stat, fs.Stat, and f.Stat on an open file
Stat(d) == IF d.exists THEN [nil |-> FALSE, modTime |-> d.modTime, size |-> d.size]
           ELSE NoStat

FStatOpen(d) == [nil |-> FALSE, modTime |-> d.modTime, size |-> d.size]

\* File.lazyInit
FileLazyInit(c) ==
    IF (c.size > 0 \/ c.entries > 0) /\ c.MaxEntries = "nil"
    THEN [c EXCEPT !.MaxEntries = "File.maxEntries", !.OnAdded = "File.onAdded",
                   !.OnEvicted = "File.onEvicted"]
    ELSE c

\* Dir.lazyInit
DirLazyInit(c) ==
    IF c.maxSize > 0 /\ c.MaxEntries = "nil"
    THEN [c EXCEPT !.MaxEntries = "Dir.maxEntries"]
    ELSE c

\* File.get, Dir.get: the lookup under the lock
FileGet(c, path) == Get(FileLazyInit(c), path)

DirGet(c, path) == Get(DirLazyInit(c), path)

\* File.remove, Dir.remove
FileRemoveNothing(c, path) == c

FileRemove(c, path) == Remove(c, path)

DirRemove(c, path) == Remove(c, path)

\* The locked section that ends readFile and readDir: the entry cached
\* meanwhile is kept when it is newer, else the one just read is added.
Revalidate(c, path, entry) ==
    LET g == Get(c, path)
    IN  IF g.ok /\ After(g.value.modTime, entry.modTime)
        THEN [c |-> g.c, data |-> g.value.data, via |-> "newer"]
        ELSE [c |-> Add(g.c, path, entry), data |-> entry.data, via |-> "read"]

\* NewFile(size, entries) or the zero File, NewDir(maxSize), and a disk on
\* which every file and directory exists.
InitCache ==
    /\ use \in {"File", "Dir", "Define"}
    /\ disk = [p \in Paths |-> [exists |-> TRUE, data |-> 1, modTime |-> 1, size |-> 1]]
    /\ ddisk = [d \in Dirs |-> [exists |-> TRUE, data |-> 1, modTime |-> 1, size |-> 0]]
    /\ mods = 0
    /\ \E entries \in IF use = "Dir" THEN {0} ELSE {0, FileCeiling},
          size \in {0, 1} :
          /\ size > 0 => use = "File" /\ entries > 0
          /\ fcache = NewCache(TRUE, "nil", FALSE, size, entries, 0, FALSE)
    /\ \E maxSize \in IF use = "Dir" THEN {0, DirCeiling} ELSE {0} :
          dcache = NewCache(TRUE, "nil", FALSE, 0, 0, maxSize, FALSE)
    /\ tpc = [t \in Threads |-> "idle"]
    /\ tl = [t \in Threads |-> NoLocals]
    /\ tret = NoReturn
    /\ ncalls = 0
    /\ hist = NoHist
    /\ IdleLRU
    /\ IdleDef
    /\ IdleOffset
    /\ IdleLock
    /\ IdleReader
    /\ IdleList

\* The call of thread t returns: to its caller, or, when it is a read made for
\* a Define query through ctxt.OpenFile, to that query.
Return(t, data, err, via) ==
    /\ tret' = [t |-> t, op |-> tl[t].op, path |-> tl[t].path, data |-> data,
                err |-> err, via |-> via]
    /\ IF tl[t].op # "Define" /\ tl[t].modified # NoOverlay
       THEN /\ tl' = [tl EXCEPT ![t] = [NoLocals EXCEPT !.op = "Define",
                                            !.path = tl[t].path, !.b = data,
                                            !.modified = tl[t].modified]]
            /\ tpc' = [tpc EXCEPT ![t] = IF err THEN "qfail" ELSE "qraw"]
       ELSE /\ tl' = [tl EXCEPT ![t] = NoLocals]
            /\ tpc' = [tpc EXCEPT ![t] = "idle"]

\* Another process writes file p: new content, any modification time and
\* size, the empty file included.
WriteFile(p) ==
    /\ use \in {"File", "Define"}
    /\ mods < MaxMods
    /\ mods' = mods + 1
    /\ \E mt \in 1..MaxTime, sz \in 0..MaxFileSize :
          disk' = [disk EXCEPT ![p] = [exists |-> TRUE, data |-> mods + 2,
                                       modTime |-> mt, size |-> sz]]
    /\ UNCHANGED <<use, ddisk, fcache, dcache, tpc, tl, tret, ncalls>>
    /\ UNCHANGED <<hist, lruVars, defVars, findVars, offVars, lockVars, readerVars, listVars>>

\* Another process removes file p.
RemoveFile(p) ==
    /\ use \in {"File", "Define"}
    /\ mods < MaxMods
    /\ disk[p].exists
    /\ mods' = mods + 1
    /\ disk' = [disk EXCEPT ![p].exists = FALSE]
    /\ UNCHANGED <<use, ddisk, fcache, dcache, tpc, tl, tret, ncalls>>
    /\ UNCHANGED <<hist, lruVars, defVars, findVars, offVars, lockVars, readerVars, listVars>>

\* Another process changes directory d: a new listing (maybe empty), any
\* modification time.
TouchDir(d) ==
    /\ use = "Dir"
    /\ mods < MaxMods
    /\ mods' = mods + 1
    /\ \E mt \in 1..MaxTime, ents \in {0, mods + 2} :
          ddisk' = [ddisk EXCEPT ![d] = [exists |-> TRUE, data |-> ents,
                                         modTime |-> mt, size |-> 0]]
    /\ UNCHANGED <<use, disk, fcache, dcache, tpc, tl, tret, ncalls>>
    /\ UNCHANGED <<hist, lruVars, defVars, findVars, offVars, lockVars, readerVars, listVars>>

\* Another process removes directory d.
RemoveDir(d) ==
    /\ use = "Dir"
    /\ mods < MaxMods
    /\ ddisk[d].exists
    /\ mods' = mods + 1
    /\ ddisk' = [ddisk EXCEPT ![d].exists = FALSE]
    /\ UNCHANGED <<use, disk, fcache, dcache, tpc, tl, tret, ncalls>>
    /\ UNCHANGED <<hist, lruVars, defVars, findVars, offVars, lockVars, readerVars, listVars>>

\* Thread t calls OpenFile(p).
CallOpenFile(t, p) ==
    /\ use = "File"
    /\ tpc[t] = "idle"
    /\ ncalls < MaxCalls
    /\ ncalls' = ncalls + 1
    /\ tl' = [tl EXCEPT ![t] = [NoLocals EXCEPT !.op = "OpenFile", !.path = p]]
    /\ tpc' = [tpc EXCEPT ![t] = "get"]
    /\ tret' = NoReturn
    /\ hist' = IF hist.on THEN [hist EXCEPT !.began[t] = disk[p].data] ELSE hist
    /\ UNCHANGED <<use, disk, ddisk, mods, fcache, dcache>>
    /\ UNCHANGED <<lruVars, defVars, findVars, offVars, lockVars, readerVars, listVars>>

\* Thread t calls OpenFileStat(p, fi) with the stat it has just taken of p.
CallOpenFileStat(t, p) ==
    /\ use = "File"
    /\ tpc[t] = "idle"
    /\ ncalls < MaxCalls
    /\ disk[p].exists
    /\ ncalls' = ncalls + 1
    /\ tl' = [tl EXCEPT ![t] = [NoLocals EXCEPT !.op = "OpenFileStat", !.path = p,
                                                !.fi = Stat(disk[p])]]
    /\ tpc' = [tpc EXCEPT ![t] = "get"]
    /\ tret' = NoReturn
    /\ UNCHANGED <<use, disk, ddisk, mods, fcache, dcache>>
    /\ UNCHANGED <<hist, lruVars, defVars, findVars, offVars, lockVars, readerVars, listVars>>

\* c.get(path) in OpenFile and OpenFileStat; OpenFileStat goes on to e.same(fi).
FGet(t) ==
    /\ tpc[t] = "get"
    /\ LET g == FileGet(fcache, tl[t].path)
       IN  /\ fcache' = g.c
           /\ IF ~g.ok
              THEN /\ tpc' = [tpc EXCEPT ![t] = "open"]
                   /\ UNCHANGED <<tl, tret>>
              ELSE IF tl[t].op = "OpenFile"
              THEN /\ tpc' = [tpc EXCEPT ![t] = "stat"]
                   /\ tl' = [tl EXCEPT ![t].e = g.value, ![t].ok = TRUE]
                   /\ UNCHANGED tret
              ELSE IF same(g.value, tl[t].fi)
              THEN Return(t, g.value.data, FALSE, "hit")
              ELSE /\ tpc' = [tpc EXCEPT ![t] = "remove"]
                   /\ tl' = [tl EXCEPT ![t].fi = NoStat, ![t].ok = TRUE]
                   /\ UNCHANGED tret
    /\ UNCHANGED <<use, disk, ddisk, mods, dcache, ncalls>>
    /\ UNCHANGED <<hist, lruVars, defVars, findVars, offVars, lockVars, readerVars, listVars>>

\* fi, err := fs.Stat(path) and e.same(fi) in OpenFile.
FStat(t) ==
    /\ tpc[t] = "stat"
    /\ LET fi == Stat(disk[tl[t].path])
       IN  IF same(tl[t].e, fi)
           THEN Return(t, tl[t].e.data, FALSE, "hit")
           ELSE /\ tpc' = [tpc EXCEPT ![t] = "remove"]
                /\ tl' = [tl EXCEPT ![t].e = NoEntry, ![t].err = fi.nil]
                /\ UNCHANGED tret
    /\ UNCHANGED <<use, disk, ddisk, mods, fcache, dcache, ncalls>>
    /\ UNCHANGED <<hist, lruVars, defVars, findVars, offVars, lockVars, readerVars, listVars>>

\* c.remove(path), and the return of the Stat error in OpenFile.
FRemove(t) ==
    /\ tpc[t] = "remove"
    /\ fcache' = FileRemove(fcache, tl[t].path)
    /\ IF tl[t].err
       THEN Return(t, 0, TRUE, "err")
       ELSE /\ tpc' = [tpc EXCEPT ![t] = "open"]
            /\ UNCHANGED <<tl, tret>>
    /\ UNCHANGED <<use, disk, ddisk, mods, dcache, ncalls>>
    /\ UNCHANGED <<hist, lruVars, defVars, findVars, offVars, lockVars, readerVars, listVars>>

\* f, err := os.Open(path) and fi, err := f.Stat() in readFile. Open reads
\* nothing but the file's existence, so the two are taken at one time. When
\* Stat fails fi is nil, and readFile goes on to read.
FOpen(t) ==
    /\ tpc[t] = "open"
    /\ IF ~disk[tl[t].path].exists
       THEN Return(t, 0, TRUE, "err") /\ UNCHANGED mods
       ELSE /\ tpc' = [tpc EXCEPT ![t] = "read"]
            /\ \E statOk \in {TRUE} \cup {mods >= MaxMods} :
                  /\ tl' = [tl EXCEPT ![t].fi = IF statOk
                                                THEN FStatOpen(disk[tl[t].path])
                                                ELSE NoStat]
                  /\ mods' = IF statOk THEN mods ELSE mods + 1
            /\ UNCHANGED tret
    /\ UNCHANGED <<use, disk, ddisk, fcache, dcache, ncalls>>
    /\ UNCHANGED <<hist, lruVars, defVars, findVars, offVars, lockVars, readerVars, listVars>>

\* b, err := readAll(f, ...) in readFile, which returns the error of the read.
FRead(t) ==
    /\ tpc[t] = "read"
    /\ \E readOk \in {TRUE} \cup {mods >= MaxMods} :
          IF readOk
          THEN /\ tl' = [tl EXCEPT ![t].b = disk[tl[t].path].data]
               /\ tpc' = [tpc EXCEPT ![t] = "insert"]
               /\ UNCHANGED <<tret, mods>>
          ELSE /\ Return(t, 0, TRUE, "err")
               /\ mods' = mods + 1
    /\ UNCHANGED <<use, disk, ddisk, fcache, dcache, ncalls>>
    /\ UNCHANGED <<hist, lruVars, defVars, findVars, offVars, lockVars, readerVars, listVars>>

\* modTime := fi.ModTime(), which panics on the nil fi of a failed Stat, then
\* the locked section of readFile, and its return.
FInsert(t) ==
    /\ tpc[t] = "insert"
    /\ IF tl[t].fi.nil
       THEN /\ tpc' = [tpc EXCEPT ![t] = "panicked"]
            /\ UNCHANGED <<tl, tret, fcache, hist>>
       ELSE LET r == Revalidate(FileLazyInit(fcache), tl[t].path,
                                [data |-> tl[t].b, modTime |-> tl[t].fi.modTime,
                                 size |-> tl[t].fi.size])
            IN  /\ fcache' = r.c
                /\ Return(t, r.data, FALSE, r.via)
                /\ hist' = IF hist.on /\ r.via = "read"
                                /\ tl[t].fi.modTime > hist.seen[tl[t].path]
                           THEN [hist EXCEPT !.seen[tl[t].path] = tl[t].fi.modTime]
                           ELSE hist
    /\ UNCHANGED <<use, disk, ddisk, mods, dcache, ncalls>>
    /\ UNCHANGED <<lruVars, defVars, findVars, offVars, lockVars, readerVars, listVars>>

\* Thread t calls ReadDir(d).
CallReadDir(t, d) ==
    /\ use = "Dir"
    /\ tpc[t] = "idle"
    /\ ncalls < MaxCalls
    /\ ncalls' = ncalls + 1
    /\ tl' = [tl EXCEPT ![t] = [NoLocals EXCEPT !.op = "ReadDir", !.path = d]]
    /\ tpc' = [tpc EXCEPT ![t] = "dget"]
    /\ tret' = NoReturn
    /\ UNCHANGED <<use, disk, ddisk, mods, fcache, dcache>>
    /\ UNCHANGED <<hist, lruVars, defVars, findVars, offVars, lockVars, readerVars, listVars>>

\* d.get(path) in ReadDir.
DGet(t) ==
    /\ tpc[t] = "dget"
    /\ LET g == DirGet(dcache, tl[t].path)
       IN  /\ dcache' = g.c
           /\ IF g.ok
              THEN /\ tpc' = [tpc EXCEPT ![t] = "dstat"]
                   /\ tl' = [tl EXCEPT ![t].e = g.value, ![t].ok = TRUE]
              ELSE /\ tpc' = [tpc EXCEPT ![t] = "dopen"]
                   /\ UNCHANGED tl
    /\ UNCHANGED <<use, disk, ddisk, mods, fcache, tret, ncalls>>
    /\ UNCHANGED <<hist, lruVars, defVars, findVars, offVars, lockVars, readerVars, listVars>>

\* fi, err := os.Stat(path) and e.modTime.Equal(fi.ModTime()) in ReadDir: with
\* the directory gone fi is nil and the call of ModTime panics.
DStat(t) ==
    /\ tpc[t] = "dstat"
    /\ LET fi == Stat(ddisk[tl[t].path])
       IN  IF fi.nil
           THEN /\ tpc' = [tpc EXCEPT ![t] = "panicked"]
                /\ tl' = [tl EXCEPT ![t].err = TRUE]
                /\ UNCHANGED tret
           ELSE IF tl[t].e.modTime = fi.modTime
           THEN Return(t, tl[t].e.data, FALSE, "hit")
           ELSE /\ tpc' = [tpc EXCEPT ![t] = "dremove"]
                /\ tl' = [tl EXCEPT ![t].e = NoEntry]
                /\ UNCHANGED tret
    /\ UNCHANGED <<use, disk, ddisk, mods, fcache, dcache, ncalls>>
    /\ UNCHANGED <<hist, lruVars, defVars, findVars, offVars, lockVars, readerVars, listVars>>

\* d.remove(path), and the return of the Stat error in ReadDir.
DRemove(t) ==
    /\ tpc[t] = "dremove"
    /\ dcache' = DirRemove(dcache, tl[t].path)
    /\ IF tl[t].err
       THEN Return(t, 0, TRUE, "err")
       ELSE /\ tpc' = [tpc EXCEPT ![t] = "dopen"]
            /\ UNCHANGED <<tl, tret>>
    /\ UNCHANGED <<use, disk, ddisk, mods, fcache, ncalls>>
    /\ UNCHANGED <<hist, lruVars, defVars, findVars, offVars, lockVars, readerVars, listVars>>

\* f, err := os.Open(path) and fi, err := f.Stat() in readDir.
DOpen(t) ==
    /\ tpc[t] = "dopen"
    /\ IF ~ddisk[tl[t].path].exists
       THEN Return(t, 0, TRUE, "err")
       ELSE /\ tpc' = [tpc EXCEPT ![t] = "dlist"]
            /\ tl' = [tl EXCEPT ![t].fi = FStatOpen(ddisk[tl[t].path])]
            /\ UNCHANGED tret
    /\ UNCHANGED <<use, disk, ddisk, mods, fcache, dcache, ncalls>>
    /\ UNCHANGED <<hist, lruVars, defVars, findVars, offVars, lockVars, readerVars, listVars>>

\* fis, err := readdir(f) in readDir: an empty listing comes with io.EOF.
DList(t) ==
    /\ tpc[t] = "dlist"
    /\ IF ddisk[tl[t].path].data = 0
       THEN Return(t, 0, TRUE, "err")
       ELSE /\ tl' = [tl EXCEPT ![t].b = ddisk[tl[t].path].data]
            /\ tpc' = [tpc EXCEPT ![t] = "dinsert"]
            /\ UNCHANGED tret
    /\ UNCHANGED <<use, disk, ddisk, mods, fcache, dcache, ncalls>>
    /\ UNCHANGED <<hist, lruVars, defVars, findVars, offVars, lockVars, readerVars, listVars>>

\* The locked section of readDir, and its return.
DInsert(t) ==
    /\ tpc[t] = "dinsert"
    /\ LET r == Revalidate(DirLazyInit(dcache), tl[t].path,
                           [data |-> tl[t].b, modTime |-> tl[t].fi.modTime, size |-> 0])
       IN  /\ dcache' = r.c
           /\ Return(t, r.data, FALSE, r.via)
    /\ UNCHANGED <<use, disk, ddisk, mods, fcache, ncalls>>
    /\ UNCHANGED <<hist, lruVars, defVars, findVars, offVars, lockVars, readerVars, listVars>>

\* The content of the src argument of Define: bytes no file on disk holds.
OverlayData == MaxMods + 2

\* ctxt.OpenFile of useModifiedFiles: the modified map answers for its path,
\* fileCache.OpenFile for every other; the cache is c.
ctxtOpenFileCaching(c, modified, path) ==
    IF path = modified.path
    THEN [hit |-> TRUE, data |-> modified.body,
          c |-> Add(FileLazyInit(c), path,
                    [data |-> modified.body, modTime |-> 1, size |-> 1])]
    ELSE [hit |-> FALSE, data |-> 0, c |-> c]

ctxtOpenFile(c, modified, path) ==
    IF path = modified.path
    THEN [hit |-> TRUE, data |-> modified.body, c |-> c]
    ELSE [hit |-> FALSE, data |-> 0, c |-> c]

\* Thread t calls Define(f, cursor, src): readSourceOffset takes the body from
\* src, or from the file on disk when src is nil, and useModifiedFiles maps
\* the file name to it.
CallDefine(t, f) ==
    /\ use = "Define"
    /\ tpc[t] = "idle"
    /\ Cardinality({u \in Threads : tpc[u] # "idle"}) < MaxQueries
    /\ ncalls < MaxCalls
    /\ ncalls' = ncalls + 1
    /\ \E src \in {"bytes", "nil"} :
          IF src = "nil" /\ ~disk[f].exists
          THEN /\ tret' = [t |-> t, op |-> "Define", path |-> f, data |-> 0,
                           err |-> TRUE, via |-> "err"]
               /\ UNCHANGED <<tl, tpc>>
          ELSE /\ tl' = [tl EXCEPT ![t] =
                          [NoLocals EXCEPT !.op = "Define", !.path = f,
                             !.modified = [path |-> f,
                                           body |-> IF src = "nil" THEN disk[f].data
                                                    ELSE OverlayData]]]
               /\ tpc' = [tpc EXCEPT ![t] = "qfast"]
               /\ tret' = NoReturn
    /\ UNCHANGED <<use, disk, ddisk, mods, fcache, dcache>>
    /\ UNCHANGED <<hist, lruVars, defVars, findVars, offVars, lockVars, readerVars, listVars>>

\* definition: fastQueryPos parses the file named in the query, read through
\* ctxt.OpenFile. What it finds there decides the rest: no answer, a local
\* object (declared in that file), or a declaration in a file g that
\* findPackageMember or the loader goes on to read.
QFast(t) ==
    /\ tpc[t] = "qfast"
    /\ LET r == ctxtOpenFile(fcache, tl[t].modified, tl[t].path)
       IN  /\ fcache' = r.c
           /\ r.hit
           /\ \E next \in {"fail", "local", "tier"}, g \in Paths :
                CASE next = "fail" -> Return(t, 0, TRUE, "err")
                  [] next = "local" ->
                        /\ tl' = [tl EXCEPT ![t].b = r.data]
                        /\ tpc' = [tpc EXCEPT ![t] = "qraw"]
                        /\ UNCHANGED tret
                  [] next = "tier" ->
                        /\ tl' = [tl EXCEPT ![t].b = r.data, ![t].path = g]
                        /\ tpc' = [tpc EXCEPT ![t] = "qopen"]
                        /\ UNCHANGED tret
    /\ UNCHANGED <<use, disk, ddisk, mods, dcache, ncalls>>
    /\ UNCHANGED <<hist, lruVars, defVars, findVars, offVars, lockVars, readerVars, listVars>>

\* findPackageMember or the loader reads file g through ctxt.OpenFile.
QOpen(t) ==
    /\ tpc[t] = "qopen"
    /\ LET r == ctxtOpenFile(fcache, tl[t].modified, tl[t].path)
       IN  /\ fcache' = r.c
           /\ IF r.hit
              THEN /\ tl' = [tl EXCEPT ![t].b = r.data]
                   /\ tpc' = [tpc EXCEPT ![t] = "qraw"]
              ELSE /\ tl' = [tl EXCEPT ![t].op = "OpenFile", ![t].b = 0]
                   /\ tpc' = [tpc EXCEPT ![t] = "get"]
    /\ UNCHANGED <<use, disk, ddisk, mods, dcache, tret, ncalls>>
    /\ UNCHANGED <<hist, lruVars, defVars, findVars, offVars, lockVars, readerVars, listVars>>

\* The file could not be read: definition fails and Define returns its error.
QFail(t) ==
    /\ tpc[t] = "qfail"
    /\ Return(t, 0, TRUE, "err")
    /\ UNCHANGED <<use, disk, ddisk, mods, fcache, dcache, ncalls>>
    /\ UNCHANGED <<hist, lruVars, defVars, findVars, offVars, lockVars, readerVars, listVars>>

\* b, err := ioutil.ReadFile(pos.Filename) in Define, and its return.
QRaw(t) ==
    /\ tpc[t] = "qraw"
    /\ IF disk[tl[t].path].exists
       THEN Return(t, disk[tl[t].path].data, FALSE, "raw")
       ELSE Return(t, 0, TRUE, "err")
    /\ UNCHANGED <<use, disk, ddisk, mods, fcache, dcache, ncalls>>
    /\ UNCHANGED <<hist, lruVars, defVars, findVars, offVars, lockVars, readerVars, listVars>>

NextCache ==
    \/ \E p \in Paths : WriteFile(p)
    \/ \E p \in Paths : RemoveFile(p)
    \/ \E d \in Dirs : TouchDir(d)
    \/ \E d \in Dirs : RemoveDir(d)
    \/ \E t \in Threads, p \in Paths : CallOpenFile(t, p)
    \/ \E t \in Threads, p \in Paths : CallOpenFileStat(t, p)
    \/ \E t \in Threads, d \in Dirs : CallReadDir(t, d)
    \/ \E t \in Threads : FGet(t)
    \/ \E t \in Threads : FStat(t)
    \/ \E t \in Threads : FRemove(t)
    \/ \E t \in Threads : FOpen(t)
    \/ \E t \in Threads : FRead(t)
    \/ \E t \in Threads : FInsert(t)
    \/ \E t \in Threads : DGet(t)
    \/ \E t \in Threads : DStat(t)
    \/ \E t \in Threads : DRemove(t)
    \/ \E t \in Threads : DOpen(t)
    \/ \E t \in Threads : DList(t)
    \/ \E t \in Threads : DInsert(t)
    \/ \E t \in Threads, f \in Paths : CallDefine(t, f)
    \/ \E t \in Threads : QFast(t)
    \/ \E t \in Threads : QOpen(t)
    \/ \E t \in Threads : QFail(t)
    \/ \E t \in Threads : QRaw(t)

SpecCache == InitCache /\ [][NextCache]_vars

\* ------------------------------------------------------ the caches, checked
\* The entry a cache holds for a path, NoEntry when it holds none.
Cached(c, path) ==
    IF ~c.nil /\ path \in DOMAIN c.cache THEN c.elems[c.cache[path]].value ELSE NoEntry

\* C2: in both caches, under every interleaving of OpenFile, OpenFileStat and
\* ReadDir calls and of changes to the disk, no step replaces the entry cached
\* for a path by an entry with an earlier modification time.
C2_NoOlderReplacement ==
    [][/\ \A p \in Paths :
            (Cached(fcache, p) # NoEntry /\ Cached(fcache', p) # NoEntry) =>
                Cached(fcache', p).modTime >= Cached(fcache, p).modTime
       /\ \A d \in Dirs :
            (Cached(dcache, d) # NoEntry /\ Cached(dcache', d) # NoEntry) =>
                Cached(dcache', d).modTime >= Cached(dcache, d).modTime]_vars

\* A readFile has found a newer entry cached when it came to insert its own,
\* and has returned that one.
C2_Witness ==
    /\ tret.op = "OpenFile"
    /\ tret.via = "newer"
    /\ Cached(fcache, tret.path).data = tret.data


\* The sum of the size fields of the entries of the elements es.
RECURSIVE SumSizes(_, _)
SumSizes(c, es) ==
    IF es = {} THEN 0
    ELSE LET e == CHOOSE x \in es : TRUE
         IN  c.elems[e].value.size + SumSizes(c, es \ {e})

\* The bytes of the entries a File holds.
CachedBytes(c) == SumSizes(c, SeqRange(c.ll))

\* The entry readFile or readDir of thread t is about to add.
ReadEntry(t) ==
    [data |-> tl[t].b, modTime |-> tl[t].fi.modTime,
     size |-> IF tl[t].op = "ReadDir" THEN 0 ELSE tl[t].fi.size]

\* C11: an OpenFile that finds an entry whose size and modification time are
\* those of the file's current stat returns the cached bytes at once, has not
\* opened or read the file, and leaves the cache and the entry as they are.
C11_UnmodifiedHit ==
    /\ [](\A t \in Threads :
            tpc[t] \in {"get", "stat"} /\ tl[t].op = "OpenFile" =>
                tl[t].b = 0 /\ tl[t].fi = NoStat)
    /\ [][\A t \in Threads :
            /\ (tpc[t] = "get" /\ tl[t].op = "OpenFile" /\ tpc'[t] # "get"
                    /\ Cached(fcache, tl[t].path) # NoEntry) =>
                  /\ tpc'[t] = "stat"
                  /\ tl'[t].e = Cached(fcache, tl[t].path)
                  /\ Cached(fcache', tl[t].path) = Cached(fcache, tl[t].path)
            /\ (tpc[t] = "stat" /\ tl[t].op = "OpenFile" /\ tpc'[t] # "stat"
                    /\ disk[tl[t].path].exists
                    /\ tl[t].e.size = disk[tl[t].path].size
                    /\ tl[t].e.modTime = disk[tl[t].path].modTime) =>
                  /\ tret' = [t |-> t, op |-> "OpenFile", path |-> tl[t].path,
                              data |-> tl[t].e.data, err |-> FALSE, via |-> "hit"]
                  /\ fcache' = fcache
                  /\ disk' = disk]_vars

\* An OpenFile has returned the bytes of the entry that is still cached, after
\* the disk was changed twice.
C11_Witness ==
    /\ tret.op = "OpenFile"
    /\ tret.via = "hit"
    /\ Cached(fcache, tret.path) # NoEntry
    /\ Cached(fcache, tret.path).data = tret.data
    /\ mods = MaxMods

C13_DeletedFileError ==
    [][\A t \in Threads :
        /\ (tpc[t] = "stat" /\ tl[t].op = "OpenFile" /\ tpc'[t] # "stat"
                /\ ~disk[tl[t].path].exists) =>
              /\ tpc'[t] = "remove"
              /\ tl'[t].err
              /\ tret' = tret
        /\ (tpc[t] = "remove" /\ tpc'[t] # "remove" /\ tl[t].err) =>
              /\ tret' = [t |-> t, op |-> tl[t].op, path |-> tl[t].path,
                          data |-> 0, err |-> TRUE, via |-> "err"]
              /\ Cached(fcache', tl[t].path) = NoEntry]_vars

\* An OpenFile of a removed file has returned an error, and its path, cached
\* before, has no entry.
C13_Witness ==
    /\ tret.op = "OpenFile"
    /\ tret.err
    /\ ~disk[tret.path].exists
    /\ Cached(fcache, tret.path) = NoEntry
    /\ \E p \in Paths : Cached(fcache, p) # NoEntry
\* C14 as stated: a ReadDir that finds an entry whose modification time is the
\* directory's current one returns the cached listing without listing the
\* directory again; one that finds another modification time removes the
\* entry, lists the directory again and caches the new listing with the new
\* modification time.
C14_Original ==
    [][\A t \in Threads :
        /\ (tpc[t] = "dstat" /\ tpc'[t] # "dstat" /\ ddisk[tl[t].path].exists
                /\ tl[t].e.modTime = ddisk[tl[t].path].modTime) =>
              /\ tret' = [t |-> t, op |-> "ReadDir", path |-> tl[t].path,
                          data |-> tl[t].e.data, err |-> FALSE, via |-> "hit"]
              /\ dcache' = dcache
        /\ (tpc[t] = "dstat" /\ tpc'[t] # "dstat" /\ ddisk[tl[t].path].exists
                /\ tl[t].e.modTime # ddisk[tl[t].path].modTime) =>
              tpc'[t] = "dremove"
        /\ (tpc[t] = "dremove" /\ tpc'[t] # "dremove" /\ ~tl[t].err) =>
              /\ Cached(dcache', tl[t].path) = NoEntry
              /\ tpc'[t] = "dopen"
        /\ (tpc[t] = "dopen" /\ tl[t].ok /\ tpc'[t] # "dopen"
                /\ ddisk[tl[t].path].exists) => tpc'[t] = "dlist"
        /\ (tpc[t] = "dlist" /\ tl[t].ok /\ tpc'[t] # "dlist") =>
              /\ tpc'[t] = "dinsert"
              /\ tl'[t].b = ddisk[tl[t].path].data
        /\ (tpc[t] = "dinsert" /\ tl[t].ok /\ tpc'[t] # "dinsert"
                /\ Cached(dcache, tl[t].path).modTime <= tl[t].fi.modTime) =>
              /\ tret'.t = t /\ ~tret'.err /\ tret'.data = tl[t].b
              /\ Cached(dcache', tl[t].path) = ReadEntry(t)]_vars

\* C15 as stated: within a Define query every read of the file the query
\* overlays returns the overlay's bytes: the read of the fast path, the reads
\* of findPackageMember and of the loader, and the content Define returns when
\* the declaration lies in that file.
C15_Original ==
    [][\A t \in Threads :
        /\ (tpc[t] \in {"qfast", "qopen"} /\ tpc'[t] \in {"qopen", "qraw"}
                /\ tl[t].path = tl[t].modified.path) =>
              tl'[t].b = tl[t].modified.body
        /\ (tpc[t] = "qraw" /\ tpc'[t] # "qraw"
                /\ tl[t].path = tl[t].modified.path /\ ~tret'.err) =>
              tret'.data = tl[t].modified.body]_vars

\* C16: overlay bytes never enter a cache. A read that the overlay answers
\* leaves both caches as they are, the content of every entry of the File
\* cache is a content the disk has held, and the queries leave the Dir cache
\* empty.
C16_OverlayNeverCached ==
    /\ [](use = "Define" =>
            /\ \A p \in Paths :
                 Cached(fcache, p) # NoEntry =>
                     Cached(fcache, p).data \in 1..(mods + 1)
            /\ LruLen(dcache) = 0)
    /\ [][\A t \in Threads :
            (tpc[t] \in {"qfast", "qopen"} /\ tpc'[t] # tpc[t]
                /\ tl[t].path = tl[t].modified.path) =>
              fcache' = fcache /\ dcache' = dcache]_vars

\* The overlay has answered for a file of which the File cache holds the
\* content on disk, read for an earlier query.
C16_Witness ==
    \E t \in Threads :
        /\ tpc[t] = "qraw"
        /\ tl[t].path = tl[t].modified.path
        /\ tl[t].b = OverlayData
        /\ Cached(fcache, tl[t].path) # NoEntry
        /\ Cached(fcache, tl[t].path).data = disk[tl[t].path].data
\* ------------------------------------------------- the offsets of a query
\* A file's content is the sequence of the byte widths of its characters.
\* oq is what is asked: the entry point (Define built on readSourceOffset,
\* Define built on readSource, or definition with a position of two offsets),
\* the kind of the src argument, the content, whether the file can be read
\* from disk, what the parser makes of the content, and the offsets.
\* opc is the step reached, ob the body, the position text and the offsets
\* parsed from it, ores the outcome: an error, or "accepted" when the offsets
\* have passed the range check.
Contents == UNION {[1..n -> 1..MaxRuneWidth] : n \in 0..MaxRunes}

\* len(b)
RECURSIVE ByteLen(_)
ByteLen(s) == IF s = <<>> THEN 0 ELSE Head(s) + ByteLen(Tail(s))

MaxBytes == MaxRunes * MaxRuneWidth

Offsets == (0 - 1)..(MaxBytes + 1)

\* The loop of byteOffset and stringOffset: s is what is left of the source,
\* i the bytes passed, n the characters passed.
RECURSIVE offsetLoop(_, _, _, _)
offsetLoop(s, off, i, n) ==
    IF s # <<>> /\ n < off THEN offsetLoop(Tail(s), off, i + Head(s), n + 1)
    ELSE IF n = off /\ s # <<>> THEN i ELSE 0 - 1

byteOffset(s, off) == offsetLoop(s, off, 0, 0)

stringOffset(s, off) == offsetLoop(s, off, 0, 0)

\* readSourceOffset(filename, cursor, src)
readSourceOffset(kind, content, fileOk, cursor) ==
    IF cursor < 0 THEN [b |-> <<>>, n |-> 0 - 1, err |-> "non-positive offset"]
    ELSE LET inString == kind = "string" /\ cursor < ByteLen(content)
             b == CASE kind = "bytes" -> content
                    [] kind = "string" -> IF inString THEN content ELSE <<>>
                    [] kind = "nil" -> IF fileOk THEN content ELSE <<>>
             n == IF inString THEN stringOffset(content, cursor) ELSE 0
             err == IF kind = "nil" /\ ~fileOk THEN "read" ELSE "nil"
         IN  IF err = "nil" /\ n = 0
             THEN IF cursor < ByteLen(b)
                  THEN [b |-> b, n |-> byteOffset(b, cursor), err |-> "nil"]
                  ELSE [b |-> b, n |-> n, err |-> "offset out of range"]
             ELSE [b |-> b, n |-> n, err |-> err]

\* readSource(filename, src)
readSource(kind, content, fileOk) ==
    IF kind = "nil" /\ ~fileOk THEN [b |-> <<>>, err |-> "read"]
    ELSE [b |-> content, err |-> "nil"]

DigitChars == <<"0", "1", "2", "3", "4", "5", "6", "7", "8", "9">>

\* fmt.Sprintf("%d", n)
RECURSIVE FormatNat(_)
FormatNat(n) ==
    IF n < 10 THEN <<DigitChars[n + 1]>>
    ELSE FormatNat(n \div 10) \o <<DigitChars[(n % 10) + 1]>>

FormatInt(n) == IF n < 0 THEN <<"-">> \o FormatNat(0 - n) ELSE FormatNat(n)

\* The offset part of fmt.Sprintf("%s:#%d", filename, off)
FormatOffset(n) == <<"#">> \o FormatInt(n)

IsDigit(c) == \E d \in 1..10 : DigitChars[d] = c

DigitValue(c) == (CHOOSE d \in 1..10 : DigitChars[d] = c) - 1

RECURSIVE ParseNat(_, _)
ParseNat(t, acc) ==
    IF t = <<>> THEN acc ELSE ParseNat(Tail(t), acc * 10 + DigitValue(Head(t)))

\* strconv.ParseInt(t, 10, 32)
ParseInt(t) ==
    LET neg == t # <<>> /\ Head(t) = "-"
        signed == t # <<>> /\ Head(t) \in {"-", "+"}
        digits == IF signed THEN Tail(t) ELSE t
    IN  IF digits = <<>> \/ \E i \in 1..Len(digits) : ~IsDigit(digits[i])
        THEN [ok |-> FALSE, v |-> 0]
        ELSE LET v == IF neg THEN 0 - ParseNat(digits, 0) ELSE ParseNat(digits, 0)
             IN  IF v > 2147483647 \/ v < 0 - 2147483647 - 1
                 THEN [ok |-> FALSE, v |-> 0]
                 ELSE [ok |-> TRUE, v |-> v]

\* parseOctothorpDecimal
parseOctothorpDecimal(t) ==
    IF t # <<>> /\ Head(t) = "#"
    THEN LET r == ParseInt(Tail(t)) IN IF r.ok THEN r.v ELSE 0 - 1
    ELSE 0 - 1

\* strings.Index(t, ","): the place of the first comma, 0 when there is none.
CommaAt(t) ==
    IF \E i \in 1..Len(t) : t[i] = ","
    THEN CHOOSE i \in 1..Len(t) : t[i] = "," /\ \A j \in 1..(i - 1) : t[j] # ","
    ELSE 0

\* parsePos, on the text that follows the last colon of the position.
parsePos(offset) ==
    LET comma == CommaAt(offset)
        startOffset == IF comma = 0 THEN parseOctothorpDecimal(offset)
                       ELSE parseOctothorpDecimal(SubSeq(offset, 1, comma - 1))
        endOffset == IF comma = 0 THEN startOffset
                     ELSE parseOctothorpDecimal(SubSeq(offset, comma + 1, Len(offset)))
    IN  [start |-> startOffset, end |-> endOffset,
         err |-> IF startOffset < 0 \/ endOffset < 0 THEN "invalid offset" ELSE "nil"]

\* A translator that checks no range.
fileOffsetToPosUnchecked(size, startOffset, endOffset) == "nil"

\* fileOffsetToPos: the error it returns, "nil" for none.
fileOffsetToPos(size, startOffset, endOffset) ==
    IF 0 <= startOffset /\ startOffset <= size
    THEN IF 0 <= endOffset /\ endOffset <= size
         THEN "nil"
         ELSE "end position is beyond end of file"
    ELSE "start position is beyond end of file"

NoBody == [body |-> <<>>, pos |-> <<>>, start |-> 0, end |-> 0]

InitOffset ==
    /\ oq \in [entry : {"readSourceOffset", "readSource", "definition"},
               kind : {"bytes", "string", "nil"}, content : Contents,
               fileOk : BOOLEAN, parse : {"ok", "nil", "invalid"},
               start : Offsets, end : Offsets]
    /\ oq.kind # "nil" => oq.fileOk
    /\ oq.entry = "definition" => oq.kind = "bytes"
    /\ oq.entry # "definition" => oq.end = oq.start
    /\ opc = IF oq.entry = "definition" THEN "parsepos" ELSE "read"
    /\ ob = IF oq.entry = "definition"
            THEN [NoBody EXCEPT !.body = oq.content,
                                !.pos = IF oq.end = oq.start THEN FormatOffset(oq.start)
                                        ELSE FormatOffset(oq.start) \o <<",">>
                                                \o FormatOffset(oq.end)]
            ELSE NoBody
    /\ ores = "none"
    /\ IdleLRU
    /\ IdleDef
    /\ IdleCache
    /\ IdleLock
    /\ IdleReader
    /\ IdleList

\* Define up to its call of definition: the source is read and the position
\* of the query is written.
OffRead ==
    /\ opc = "read"
    /\ IF oq.entry = "readSourceOffset"
       THEN LET r == readSourceOffset(oq.kind, oq.content, oq.fileOk, oq.start)
            IN  IF r.err # "nil"
                THEN opc' = "done" /\ ores' = r.err /\ UNCHANGED ob
                ELSE /\ opc' = "parsepos"
                     /\ ob' = [NoBody EXCEPT !.body = r.b, !.pos = FormatOffset(r.n)]
                     /\ UNCHANGED ores
       ELSE LET r == readSource(oq.kind, oq.content, oq.fileOk)
            IN  IF r.err # "nil"
                THEN opc' = "done" /\ ores' = r.err /\ UNCHANGED ob
                ELSE /\ opc' = "parsepos"
                     /\ ob' = [NoBody EXCEPT !.body = r.b, !.pos = FormatOffset(oq.start)]
                     /\ UNCHANGED ores
    /\ UNCHANGED <<oq, lruVars, defVars, findVars, cacheVars, lockVars, readerVars, listVars>>

\* fastQueryPos: parsePos.
OffParsePos ==
    /\ opc = "parsepos"
    /\ LET r == parsePos(ob.pos)
       IN  IF r.err # "nil"
           THEN opc' = "done" /\ ores' = r.err /\ UNCHANGED ob
           ELSE /\ opc' = "parsefile"
                /\ ob' = [ob EXCEPT !.start = r.start, !.end = r.end]
                /\ UNCHANGED ores
    /\ UNCHANGED <<oq, lruVars, defVars, findVars, cacheVars, lockVars, readerVars, listVars>>

\* fastQueryPos: buildutil.ParseFile, f == nil, !f.Pos().IsValid().
OffParseFile ==
    /\ opc = "parsefile"
    /\ CASE oq.parse = "nil" -> opc' = "done" /\ ores' = "parse error"
         [] oq.parse = "invalid" -> opc' = "done" /\ ores' = "not a Go source file"
         [] oq.parse = "ok" -> opc' = "range" /\ UNCHANGED ores
    /\ UNCHANGED <<oq, ob, lruVars, defVars, findVars, cacheVars, lockVars, readerVars, listVars>>

\* fastQueryPos: fileOffsetToPos on the parsed file.
OffRange ==
    /\ opc = "range"
    /\ LET err == fileOffsetToPos(ByteLen(ob.body), ob.start, ob.end)
       IN  ores' = IF err # "nil" THEN err ELSE "accepted"
    /\ opc' = "done"
    /\ UNCHANGED <<oq, ob, lruVars, defVars, findVars, cacheVars, lockVars, readerVars, listVars>>

NextOffset == OffRead \/ OffParsePos \/ OffParseFile \/ OffRange

SpecOffset == InitOffset /\ [][NextOffset]_vars

\* The errors that reject a query for its offsets.
MalformedQuery ==
    {"non-positive offset", "offset out of range", "invalid offset",
     "start position is beyond end of file", "end position is beyond end of file"}

\* C17 as stated: when the file can be read and parsed, offsets within the
\* file of which one equals its byte length are accepted, and an offset one
\* past the byte length is rejected as malformed; for the start and for the
\* end offset, at Define and at the translator that definition calls.
C17_Original ==
    (opc = "done" /\ oq.fileOk /\ oq.parse = "ok") =>
        LET len == ByteLen(oq.content)
        IN  /\ (oq.start \in 0..len /\ oq.end \in 0..len
                  /\ (oq.start = len \/ oq.end = len)) => ores = "accepted"
            /\ (oq.start = len + 1 \/ oq.end = len + 1) => ores \in MalformedQuery

\* ------------------------------------------------- the resolution tiers

\* The scenario of a qualified reference A.Foo: the fast path finds the
\* identifier, the parser has no object for it, it is the selector of an
\* imported package, the import succeeds, and exactly one file of the package
\* declares the member, as a func.
QualifiedFunc ==
    /\ q.fastOk /\ q.isIdent /\ ~q.objValid
    /\ packageForQualIdent(q)
    /\ fin.importOk
    /\ Cardinality(Declaring) = 1
    /\ \A w \in Declaring : fin.parse[w] = "func"

\* C18: when package A declares func Foo in one file and the query is on
\* A.Foo in a file that imports A, definition ends without error at the func
\* declaration in that file of A, the type checker is not run, and Define,
\* once it has read that file, returns a nil error and a valid Position (line
\* and column from 1) in that file.
C18_ImportedFuncResolved ==
    (QualifiedFunc /\ dpc = "done") =>
        /\ dret.err = "nil"
        /\ dret.pos = "member"
        /\ dret.tok = "func"
        /\ dret.file \in Declaring
        /\ calls.load = 0
        /\ dout.read # "skipped"
        /\ dout.read = "ok" =>
              /\ dout.err = "nil"
              /\ IsValid(dout.pos)
              /\ dout.pos = [Filename |-> dret.file, Line |-> 1, Column |-> 1]
              /\ dout.b = "bytes"

\* Define has returned the position of the func, found among three files.
C18_Witness ==
    /\ QualifiedFunc
    /\ fin.n = NumFiles
    /\ dout.read = "ok"
    /\ dout.pos.Filename \in Declaring

\* C19: when the parser has linked the identifier to an object with a valid
\* position, findPackageMember and the type checker are never entered during
\* the query, and definition ends with that position and the label made of
\* the object's kind and name.
C19_LocalFastPathOnly ==
    (q.fastOk /\ q.isIdent /\ q.objValid) =>
        /\ calls.find = 0
        /\ calls.load = 0
        /\ mpc = "idle"
        /\ spawned = 0
        /\ q.tc = NoTc
        /\ dpc \in {"fast", "done"}
        /\ dpc = "done" =>
              /\ calls.fast = 1
              /\ dret = [err |-> "nil", pos |-> "local", tok |-> "nil", file |-> 0,
                          descr |-> "kind name"]

\* A local object was returned for an identifier that is also the selector
\* of an imported package.
C19_Witness ==
    /\ q.fastOk /\ q.isIdent /\ q.objValid
    /\ packageForQualIdent(q)
    /\ dpc = "done"
    /\ dret.pos = "local"
    /\ dout.read = "ok"

\* The type checker reached its lookup in Uses and Defs.
LookupReached ==
    /\ calls.load = 1
    /\ q.tc.importOk /\ q.tc.loadOk /\ q.tc.qposOk /\ q.tc.isIdent

\* C20 as stated: a query on an identifier bound to a predeclared object
\* never ends in success, and ends with "is built in" and no position once
\* the lookup is reached.
C20_Original ==
    (q.builtin /\ dpc = "done") =>
        /\ dret.err # "nil"
        /\ LookupReached => dret = Failure("is built in")

\* C20: a query on an identifier bound to a predeclared object that reaches
\* the type checker's lookup ends with "is built in" and no position, and
\* Define returns that error with no position and no source; such a query
\* ends in success only by findPackageMember, which answers a qualified
\* identifier from the files of the package without the bindings.
C20_BuiltinAtLookup ==
    (q.builtin /\ dpc = "done") =>
        /\ LookupReached =>
              /\ dret = Failure("is built in")
              /\ dout # NoOutput =>
                    dout = [pos |-> NoPosition, b |-> "nil", err |-> "is built in",
                            read |-> "skipped"]
        /\ dret.err = "nil" =>
              /\ calls.find = 1
              /\ calls.load = 0
              /\ dret.pos = "member"

\* Define has returned "is built in" for a predeclared object.
C20_Witness ==
    /\ q.builtin
    /\ LookupReached
    /\ dout.err = "is built in"

\* ------------------------------------------------- what Define returns

\* C21: what Define returns is a position with the bytes of the declaring
\* file and a nil error, or no position, no bytes and an error; an error never
\* comes with a position or with bytes, also when definition has succeeded
\* and the read of the declaring file has failed.
C21_ResultOrError ==
    dout # NoOutput =>
        \/ /\ dout.err = "nil"
           /\ dout.pos # NoPosition
           /\ IsValid(dout.pos)
           /\ dout.b = "bytes"
           /\ dret.err = "nil"
        \/ /\ dout.err # "nil"
           /\ dout.pos = NoPosition
           /\ dout.b = "nil"
           /\ dout.read = "failed" <=> dret.err = "nil"

\* definition succeeded through findPackageMember and the read then failed.
C21_Witness ==
    /\ dout.read = "failed"
    /\ dret.err = "nil"
    /\ dret.pos = "member"
    /\ dout.err = "read"

\* ------------------------------------------------- lru.Cache.Add, checked

\* C22 as stated: after any Add, of a new key or of a key already present,
\* MaxEntries is false or the cache is empty.
C22_Original ==
    lruOp.op = "Add" => (~MaxEntries(lru) \/ LruLen(lru) = 0)

\* The counts of listener calls after an Add that replaced old by new.
LogAfterReplace(log, old, new, which) ==
    [v \in LruValues |-> log[v] + (IF v = old /\ which = "evicted" THEN 1 ELSE 0)
                                + (IF v = new /\ which = "added" THEN 1 ELSE 0)]

\* C23: Add on a key already present calls OnEvicted once with the old value
\* and OnAdded once with the new one, stores the new value, makes the key the
\* most recently used, and leaves Len(), the values of the other keys and
\* their order unchanged.
C23_ReplaceNotifiesAndPromotes ==
    (lruOp.op = "Add" /\ lruOp.key \in LiveKeys(lruPrev)) =>
        LET old == Get(lruPrev, lruOp.key).value
        IN  /\ lru.evlog = LogAfterReplace(lruPrev.evlog, old, lruOp.value, "evicted")
            /\ lru.addlog = LogAfterReplace(lruPrev.addlog, old, lruOp.value, "added")
            /\ lru.size = lruPrev.size - old.size + lruOp.value.size
            /\ Get(lru, lruOp.key).value = lruOp.value
            /\ DrainOrder(lru) = Without(DrainOrder(lruPrev), lruOp.key) \o <<lruOp.key>>
            /\ LruLen(lru) = LruLen(lruPrev)
            /\ LiveKeys(lru) = LiveKeys(lruPrev)
            /\ \A k \in LiveKeys(lruPrev) \ {lruOp.key} :
                  Get(lru, k).value = Get(lruPrev, k).value

\* The least recently used of three keys was given another value.
C23_Witness ==
    /\ lruOp.op = "Add"
    /\ LruLen(lruPrev) = 3
    /\ DrainOrder(lruPrev)[1] = lruOp.key
    /\ Get(lruPrev, lruOp.key).value # lruOp.value
    /\ DrainOrder(lru)[3] = lruOp.key

\* ------------------------------------------------- the File's byte total

\* The locked sections of File and Dir are single steps, so the lock is free
\* in every state.

\* C24 as stated: in a File with a positive ceiling, the running total is the
\* sum of the sizes of the entries it holds, 0 when it holds none.
C24_Original ==
    fcache.entries > 0 => fcache.size = CachedBytes(fcache)

\* C25 as stated: in a File with a positive ceiling, the running total is
\* below the ceiling or the File holds no entry.
C25_Original ==
    fcache.entries > 0 => (fcache.size < fcache.entries \/ LruLen(fcache) = 0)

\* ------------------------------------------------- failures of the disk

\* Thread t is in OpenFile or OpenFileStat.
InFileCall(t) == tl[t].op \in {"OpenFile", "OpenFileStat"}

\* The call of thread t has returned an error in this step, the File as it was.
ReturnsError(t) ==
    /\ tret'.t = t
    /\ tret'.err
    /\ tpc'[t] \in {"idle", "qfail"}
    /\ fcache' = fcache

\* C26 as stated: a reload that fails at the open, at the stat of the opened
\* file or at the read ends the call at once with the error, the cache
\* unchanged; no call goes on after a failed stat, and none ends abnormally.
\* (A step of a call that raises mods is a failure of its stat or its read.)
C26_Original ==
    [][\A t \in Threads :
        /\ (InFileCall(t) /\ tpc[t] = "open" /\ tpc'[t] # "open") =>
              IF ~disk[tl[t].path].exists \/ mods' # mods
              THEN ReturnsError(t)
              ELSE tpc'[t] = "read"
        /\ (InFileCall(t) /\ tpc[t] = "read" /\ tpc'[t] # "read") =>
              IF mods' # mods
              THEN ReturnsError(t)
              ELSE tpc'[t] = "insert"
        /\ (InFileCall(t) /\ tpc[t] = "insert") => tpc'[t] # "panicked"]_vars

\* C27 as stated: a ReadDir that finds an entry and cannot stat the directory
\* goes on to remove the entry and returns the error of the stat: it does
\* not return the cached listing and does not end abnormally.
C27_Original ==
    [][\A t \in Threads :
        /\ (tpc[t] = "dstat" /\ tpc'[t] # "dstat" /\ ~ddisk[tl[t].path].exists) =>
              /\ tpc'[t] = "dremove"
              /\ tl'[t].err
        /\ (tpc[t] = "dremove" /\ tpc'[t] # "dremove" /\ tl[t].err) =>
              /\ Cached(dcache', tl[t].path) = NoEntry
              /\ tret'.t = t
              /\ tret'.err]_vars

\* ------------------------------------------------- the scope of the locks
\* The calls of File and Dir, step by step with their Lock and Unlock: mu is
\* the holder of each cache's mutex (0: free), lop[t] the call thread t is in
\* and lpc[t] its place in it. A step is an edge [from, kind, to] of the
\* call's flow: "lock" and "unlock" are c.Lock() and c.Unlock(), "cache" an
\* operation on the lru.Cache, "io" an open, stat, read or listing, "local" a
\* computation on locals. Several edges from one place are the branches the
\* code takes there.

LockOps == {"OpenFile", "OpenFileStat", "ReadDir"}

CacheOf(op) == IF op = "ReadDir" THEN "Dir" ELSE "File"

E(from, kind, tos) == {[from |-> from, kind |-> kind, to |-> x] : x \in tos}

\* get, remove, and readFile or readDir; afterGet is where the caller goes
\* when get returns, afterRemove where it goes when remove returns,
\* getUnlock the kind of the step that ends get, statFails where a failed
\* Stat of the opened file leads: to the return in readDir, on to the read in
\* readFile, where fi.ModTime() then panics.
FlowWith(afterGet, afterRemove, getUnlock, statFails) ==
    E("get:Lock", "lock", {"get:Get"})
      \cup E("get:Get", "cache", {"get:Unlock"})
      \cup E("get:Unlock", getUnlock, afterGet)
      \cup E("remove:Lock", "lock", {"remove:Remove"})
      \cup E("remove:Remove", "cache", {"remove:Unlock"})
      \cup E("remove:Unlock", "unlock", afterRemove)
      \cup E("read:Open", "io", {"return", "read:Stat"})
      \cup E("read:Stat", "io", {statFails, "read:Read"})
      \cup E("read:Read", "io", {"return", "read:ModTime"})
      \cup E("read:ModTime", "local",
              IF statFails = "return" THEN {"read:Lock"} ELSE {"read:Lock", "panicked"})
      \cup E("read:Lock", "lock", {"read:Get"})
      \cup E("read:Get", "cache", {"read:UnlockNewer", "read:Add"})
      \cup E("read:UnlockNewer", "unlock", {"return"})
      \cup E("read:Add", "cache", {"read:Unlock"})
      \cup E("read:Unlock", "unlock", {"return"})

\* OpenFile, OpenFileStat and ReadDir around them.
FlowOf(op, getUnlock) ==
    CASE op = "OpenFile" ->
           FlowWith({"Stat", "read:Open"}, {"return", "read:Open"}, getUnlock, "read:Read")
             \cup E("Stat", "io", {"same"})
             \cup E("same", "local", {"return", "remove:Lock"})
      [] op = "OpenFileStat" ->
           FlowWith({"same", "read:Open"}, {"read:Open"}, getUnlock, "read:Read")
             \cup E("same", "local", {"return", "remove:Lock"})
      [] op = "ReadDir" ->
           FlowWith({"Stat", "read:Open"}, {"return", "read:Open"}, getUnlock, "return")
             \cup E("Stat", "io", {"same"})
             \cup E("same", "local", {"return", "remove:Lock", "panicked"})
      [] OTHER -> {}

\* A get that returns without Unlock.
FlowGetKeepsLock(op) == FlowOf(op, "local")

Flow(op) == FlowOf(op, "unlock")

\* The edges thread t can take.
Ahead(t) == {e \in Flow(lop[t]) : e.from = lpc[t]}

InitLock ==
    /\ mu = [c \in {"File", "Dir"} |-> 0]
    /\ lpc = [t \in Threads |-> "idle"]
    /\ lop = [t \in Threads |-> "none"]
    /\ IdleLRU
    /\ IdleDef
    /\ IdleCache
    /\ IdleOffset
    /\ IdleReader
    /\ IdleList

\* Thread t calls op.
LockCall(t, op) ==
    /\ lpc[t] = "idle"
    /\ lop' = [lop EXCEPT ![t] = op]
    /\ lpc' = [lpc EXCEPT ![t] = "get:Lock"]
    /\ UNCHANGED <<mu, lruVars, defVars, findVars, cacheVars, offVars, readerVars, listVars>>

\* c.Lock(): waits for the mutex to be free.
Lock(t) ==
    /\ \E e \in Ahead(t) :
          /\ e.kind = "lock"
          /\ mu[CacheOf(lop[t])] = 0
          /\ mu' = [mu EXCEPT ![CacheOf(lop[t])] = t]
          /\ lpc' = [lpc EXCEPT ![t] = e.to]
    /\ UNCHANGED <<lop, lruVars, defVars, findVars, cacheVars, offVars, readerVars, listVars>>

\* c.Unlock()
Unlock(t) ==
    /\ \E e \in Ahead(t) :
          /\ e.kind = "unlock"
          /\ mu' = [mu EXCEPT ![CacheOf(lop[t])] = 0]
          /\ lpc' = [lpc EXCEPT ![t] = e.to]
    /\ UNCHANGED <<lop, lruVars, defVars, findVars, cacheVars, offVars, readerVars, listVars>>

\* A step on the lru.Cache, on the disk, or on locals.
Step(t, kind) ==
    /\ \E e \in Ahead(t) :
          /\ e.kind = kind
          /\ lpc' = [lpc EXCEPT ![t] = e.to]
    /\ UNCHANGED <<mu, lop, lruVars, defVars, findVars, cacheVars, offVars, readerVars, listVars>>

\* The call returns.
LockReturn(t) ==
    /\ lpc[t] = "return"
    /\ lpc' = [lpc EXCEPT ![t] = "idle"]
    /\ lop' = [lop EXCEPT ![t] = "none"]
    /\ UNCHANGED <<mu, lruVars, defVars, findVars, cacheVars, offVars, readerVars, listVars>>

NextLock ==
    \/ \E t \in Threads, op \in LockOps : LockCall(t, op)
    \/ \E t \in Threads : Lock(t)
    \/ \E t \in Threads : Unlock(t)
    \/ \E t \in Threads : Step(t, "cache")
    \/ \E t \in Threads : Step(t, "io")
    \/ \E t \in Threads : Step(t, "local")
    \/ \E t \in Threads : LockReturn(t)

SpecLock == InitLock /\ [][NextLock]_vars

\* Thread t holds the mutex of the cache it is calling.
Holds(t) == lop[t] # "none" /\ mu[CacheOf(lop[t])] = t

\* C28: a thread that holds the mutex of a cache is about to operate on the
\* lru.Cache or to unlock; a thread about to open, stat, read or list holds
\* no mutex, and so does one that has returned. On every path through
\* OpenFile, OpenFileStat, readFile, ReadDir and readDir.
C28_LockAroundCacheOnly ==
    \A t \in Threads :
        /\ Holds(t) => \A e \in Ahead(t) : e.kind \in {"cache", "unlock"}
        /\ (\E e \in Ahead(t) : e.kind = "io") => \A c \in {"File", "Dir"} : mu[c] # t
        /\ lpc[t] \in {"return", "idle", "panicked"} => \A c \in {"File", "Dir"} : mu[c] # t
        /\ (\E e \in Ahead(t) : e.kind = "cache") => Holds(t)

\* One thread reads a file from disk while the other holds the File's mutex
\* to add the entry it has read.
C28_Witness ==
    \E t, u \in Threads :
        /\ lpc[t] = "read:Read"
        /\ lop[t] = "OpenFile"
        /\ lpc[u] = "read:Add"
        /\ lop[u] = "OpenFileStat"
        /\ mu["File"] = u

\* ------------------------------------------------- the workers after done
\* C29 as stated: once done is closed, no worker that waits at the select
\* starts parsing.
C29_Original ==
    [][\A w \in Files : (done /\ wpc[w] = "select") => wpc'[w] # "parse"]_vars

\* C29, amended: once done is closed, a worker that waits at the select starts
\* parsing only by taking a slot that the gate has free; a worker that finds
\* the gate full, or whose select takes the case of done, emits nil without
\* parsing its file and without holding a slot.
C29_CancelledSkipsUnlessSlotFree ==
    [][\A w \in Files :
          /\ (done /\ wpc[w] = "select" /\ wpc'[w] # "select") =>
                \/ /\ gate < GateCap
                   /\ wpc'[w] = "parse"
                   /\ whold'[w]
                   /\ gate' = gate + 1
                \/ /\ wpc'[w] = "send"
                   /\ wres'[w] = NilRes
                   /\ ~whold'[w]
                   /\ gate' = gate
          /\ (wpc[w] = "send" /\ ~whold[w] /\ wpc'[w] # "send") =>
                /\ wres[w] = NilRes
                /\ ch' = Append(ch, NilRes)
                /\ wpc'[w] = "exited"]_vars

\* done is closed, the gate is full, and a worker whose file declares the
\* member is about to send nil without having held a slot.
C29_Witness ==
    /\ done
    /\ gate = GateCap
    /\ \E w \in Declaring : wpc[w] = "send" /\ ~whold[w] /\ wres[w] = NilRes

\* C30: under fair scheduling every worker that findPackageMember has spawned
\* exits, having sent its one result and given back its slot, whether the
\* collector received every result or returned on the first match.
C30_WorkersTerminate ==
    \A w \in Files :
        (wpc[w] # "unspawned") ~> (wpc[w] = "exited" /\ sent[w] = 1 /\ ~whold[w])

\* The collector returned on the first of three results, the other two stay
\* in the channel, and the three workers have exited.
C30_Witness ==
    /\ mpc = "returned"
    /\ fret.err = "nil"
    /\ fin.n = 3
    /\ recvd = 1
    /\ Len(ch) = 2
    /\ gate = 0
    /\ \A w \in Files : wpc[w] = "exited"

\* ------------------------------------------------- the fast path's misses
\* C31 as stated: when the fast path finds no identifier at the position, or
\* an identifier without a local binding, a later tier is run.
C31_Original ==
    (dpc = "done" /\ q.fastOk /\ (~q.isIdent \/ ~q.objValid)) =>
        calls.find + calls.load >= 1

\* C31, amended: when the fast path finds no identifier at the position,
\* definition returns "no identifier here" to its caller and runs no later
\* tier; when it finds an identifier without a local binding, it goes on to
\* exactly one later tier and returns what that tier gives.
C31_NoIdentFatalNoBindingFallsThrough ==
    (dpc = "done" /\ q.fastOk) =>
        /\ ~q.isIdent =>
              /\ dret = Failure("no identifier here")
              /\ calls.find = 0
              /\ calls.load = 0
              /\ q.tc = NoTc
        /\ (q.isIdent /\ ~q.objValid) =>
              /\ calls.find + calls.load = 1
              /\ calls.find = 1 => dret = fret
              /\ calls.load = 1 => dret = TypeCheckResult(q.tc)

\* definition has returned "no identifier here" from the fast path, for a
\* position inside a selector expression.
C31_Witness ==
    /\ dpc = "done"
    /\ q.fastOk
    /\ ~q.isIdent
    /\ q.selSel
    /\ calls.fast = 1
    /\ dret.err = "no identifier here"

\* ------------------------------------------------- the range check's place
BeyondEnd ==
    {"start position is beyond end of file", "end position is beyond end of file"}

\* C32 as stated: the offsets are range-checked before any parsing, so the
\* file is parsed only for offsets that lie within its byte length.
C32_Original ==
    [][(opc = "parsefile" /\ opc' # "parsefile") =>
          /\ ob.start <= ByteLen(ob.body)
          /\ ob.end <= ByteLen(ob.body)]_vars

\* C32, amended: fileOffsetToPos checks the offsets against the byte length
\* of the file only after fastQueryPos has parsed the file: the check is
\* reached from a parse that gave a valid file and from nowhere else, it
\* rejects a start or an end offset greater than the length and accepts the
\* others, and a parse that gives no valid file is reported in its place.
C32_RangeCheckedAfterParse ==
    [][/\ (opc' = "range" /\ opc # "range") => (opc = "parsefile" /\ oq.parse = "ok")
       /\ (opc = "parsefile" /\ opc' # "parsefile" /\ oq.parse # "ok") =>
             (opc' = "done" /\ ores' \in {"parse error", "not a Go source file"})
       /\ (opc = "range" /\ opc' # "range") =>
             /\ opc' = "done"
             /\ ores' = IF ob.start > ByteLen(ob.body)
                        THEN "start position is beyond end of file"
                        ELSE IF ob.end > ByteLen(ob.body)
                        THEN "end position is beyond end of file"
                        ELSE "accepted"
       /\ (ores' \in BeyondEnd /\ ores \notin BeyondEnd) => opc = "range"]_vars

\* Define, built on readSource, has had the file parsed and the start offset
\* rejected after it.
C32_Witness ==
    /\ opc = "done"
    /\ oq.entry = "readSource"
    /\ oq.parse = "ok"
    /\ oq.start = ByteLen(oq.content) + 1
    /\ ores = "start position is beyond end of file"

\* ------------------------------------------------- the reader of an entry
\* rbuf is the data of one fileEntry, rd the readers that newReader has made
\* over it (open: r.s still refers to the data; i: r.i), rret what the last
\* call returned: the method, the reader, n, err, the bytes handed to the
\* caller's buffer or taken by the writer, and the writer's own error.
Buffers == {[k \in 1..n |-> k] : n \in 0..MaxBuf}

MaxPos == MaxBuf + 1

Min(a, b) == IF a < b THEN a ELSE b

\* r.s
Slice(c) == IF rd[c].open THEN rbuf ELSE <<>>

\* r.s[r.i:]
Unread(c) == SubSeq(Slice(c), rd[c].i + 1, Len(Slice(c)))

\* newReader(e.data), once for each reader
InitReader ==
    /\ rbuf \in Buffers
    /\ rd = [c \in Cursors |-> [open |-> TRUE, i |-> 0]]
    /\ rret = NoRet
    /\ IdleLRU
    /\ IdleDef
    /\ IdleCache
    /\ IdleOffset
    /\ IdleLock
    /\ IdleList

\* func (r *reader) Read(b []byte) (n int, err error), with len(b) = lenb
ReaderRead(c, lenb) ==
    /\ IF rd[c].i >= Len(Slice(c))
       THEN /\ rret' = [NoRet EXCEPT !.op = "Read", !.cur = c, !.err = "EOF"]
            /\ UNCHANGED rd
       ELSE LET n == Min(lenb, Len(Unread(c)))
            IN  /\ rd' = [rd EXCEPT ![c].i = @ + n]
                /\ rret' = [NoRet EXCEPT !.op = "Read", !.cur = c, !.n = n,
                                         !.data = SubSeq(Unread(c), 1, n)]
    /\ UNCHANGED <<rbuf, lruVars, defVars, findVars, cacheVars, offVars, lockVars, listVars>>

\* func (r *reader) ReadAt(b []byte, off int64) (n int, err error)
ReaderReadAt(c, lenb, off) ==
    /\ IF off < 0
       THEN rret' = [NoRet EXCEPT !.op = "ReadAt", !.cur = c, !.err = "negative offset"]
       ELSE IF off >= Len(Slice(c))
       THEN rret' = [NoRet EXCEPT !.op = "ReadAt", !.cur = c, !.err = "EOF"]
       ELSE LET n == Min(lenb, Len(Slice(c)) - off)
            IN  rret' = [NoRet EXCEPT !.op = "ReadAt", !.cur = c, !.n = n,
                                      !.err = IF n < lenb THEN "EOF" ELSE "nil",
                                      !.data = SubSeq(Slice(c), off + 1, off + n)]
    /\ UNCHANGED <<rbuf, rd, lruVars, defVars, findVars, cacheVars, offVars, lockVars, listVars>>

\* func (r *reader) Seek(offset int64, whence int) (int64, error); whence is
\* io.SeekStart (0), io.SeekCurrent (1), io.SeekEnd (2) or something else.
ReaderSeek(c, offset, whence) ==
    /\ LET abs == CASE whence = 0 -> offset
                    [] whence = 1 -> rd[c].i + offset
                    [] whence = 2 -> Len(Slice(c)) + offset
                    [] OTHER -> 0
       IN  /\ abs <= MaxPos
           /\ IF whence \notin {0, 1, 2}
              THEN /\ rret' = [NoRet EXCEPT !.op = "Seek", !.cur = c, !.err = "invalid whence"]
                   /\ UNCHANGED rd
              ELSE IF abs < 0
              THEN /\ rret' = [NoRet EXCEPT !.op = "Seek", !.cur = c, !.err = "negative position"]
                   /\ UNCHANGED rd
              ELSE /\ rd' = [rd EXCEPT ![c].i = abs]
                   /\ rret' = [NoRet EXCEPT !.op = "Seek", !.cur = c, !.n = abs]
    /\ UNCHANGED <<rbuf, lruVars, defVars, findVars, cacheVars, offVars, lockVars, listVars>>

\* func (r *reader) WriteTo(w io.Writer) (n int64, err error); w.Write takes
\* m of the bytes and returns werr.
ReaderWriteTo(c, m, werr) ==
    /\ IF rd[c].i >= Len(Slice(c))
       THEN /\ m = 0
            /\ werr = "nil"
            /\ rret' = [NoRet EXCEPT !.op = "WriteTo", !.cur = c]
            /\ UNCHANGED rd
       ELSE IF m > Len(Unread(c))
       THEN /\ rret' = [NoRet EXCEPT !.op = "WriteTo", !.cur = c, !.err = "panic",
                                     !.werr = werr]
            /\ UNCHANGED rd
       ELSE /\ rd' = [rd EXCEPT ![c].i = @ + m]
            /\ rret' = [NoRet EXCEPT !.op = "WriteTo", !.cur = c, !.n = 0 - 1,
                                     !.err = "nil", !.werr = werr,
                                     !.data = SubSeq(Unread(c), 1, m)]
    /\ UNCHANGED <<rbuf, lruVars, defVars, findVars, cacheVars, offVars, lockVars, listVars>>

\* A Close that empties the data the readers share.
ReaderCloseShared(c) ==
    /\ rbuf' = <<>>
    /\ rd' = [rd EXCEPT ![c].open = FALSE]
    /\ rret' = [NoRet EXCEPT !.op = "Close", !.cur = c]
    /\ UNCHANGED <<lruVars, defVars, findVars, cacheVars, offVars, lockVars, listVars>>

\* func (r *reader) Close() error
ReaderClose(c) ==
    /\ rd' = [rd EXCEPT ![c].open = FALSE]
    /\ rret' = [NoRet EXCEPT !.op = "Close", !.cur = c]
    /\ UNCHANGED <<rbuf, lruVars, defVars, findVars, cacheVars, offVars, lockVars, listVars>>

NextReader ==
    \/ \E c \in Cursors, lenb \in 0..MaxBuf : ReaderRead(c, lenb)
    \/ \E c \in Cursors, lenb \in 0..MaxBuf, off \in (0 - 1)..MaxPos : ReaderReadAt(c, lenb, off)
    \/ \E c \in Cursors, offset \in (0 - MaxPos)..MaxPos, whence \in 0..3 :
          ReaderSeek(c, offset, whence)
    \/ \E c \in Cursors, m \in 0..MaxPos, werr \in {"nil", "werr"} : ReaderWriteTo(c, m, werr)
    \/ \E c \in Cursors : ReaderClose(c)

SpecReader == InitReader /\ [][NextReader]_vars

\* C33 as stated: WriteTo hands the unread bytes to w, moves the reader by
\* the number of bytes w took and returns that number, 0 at the end of the
\* data, with the error of w, or io.ErrShortWrite when w took fewer bytes and
\* gave no error.
C33_Original ==
    [][(rret'.op = "WriteTo" /\ rret'.err # "panic") =>
          LET c == rret'.cur
              m == Len(rret'.data)
          IN  /\ rret'.data = SubSeq(Unread(c), 1, m)
              /\ rd'[c].i = rd[c].i + m
              /\ rret'.n = m
              /\ rret'.err = IF rret'.werr # "nil" THEN rret'.werr
                             ELSE IF m # Len(Unread(c)) THEN "ErrShortWrite"
                             ELSE "nil"]_vars

\* C34: a call of Read, ReadAt, Seek, WriteTo or Close on one reader leaves
\* the shared data as it was, and with it the position of every other reader
\* and the bytes every other reader has left to read; ReadAt leaves the
\* position of its own reader as it was too.
C34_CursorsIndependent ==
    [][/\ rbuf' = rbuf
       /\ \A d \in Cursors :
             d # rret'.cur => /\ rd'[d] = rd[d]
                              /\ Unread(d)' = Unread(d)
       /\ rret'.op = "ReadAt" => rd' = rd]_vars

\* One reader has read to the end and is closed while the other, still at
\* the start, has all the data left to read.
C34_Witness ==
    /\ Len(rbuf) = MaxBuf
    /\ \E c, d \in Cursors :
          /\ ~rd[c].open
          /\ rd[c].i = MaxBuf
          /\ rd[d].open
          /\ rd[d].i = 0
          /\ Unread(d) = rbuf

\* ------------------------------------------------- OpenFile and OpenFileStat
\* One call run from start to end with nothing in between, on the cache c
\* and the disk d, with every read of an existing file succeeding: the cache
\* it leaves, the bytes or the error it returns, and the stats of the path
\* that the call itself has made.

\* File.readFile
readFile(c, d, path) ==
    IF ~d[path].exists
    THEN [c |-> c, data |-> 0, err |-> TRUE, stats |-> 0]
    ELSE LET fi == FStatOpen(d[path])
             r == Revalidate(FileLazyInit(c), path,
                             [data |-> d[path].data, modTime |-> fi.modTime,
                              size |-> fi.size])
         IN  [c |-> r.c, data |-> r.data, err |-> FALSE, stats |-> 0]

\* An OpenFileStat that leaves the entry it found stale in the cache.
OpenFileStatKeepsStale(c, d, path, fi) ==
    LET g == FileGet(c, path)
    IN  IF g.ok /\ same(g.value, fi)
        THEN [c |-> g.c, data |-> g.value.data, err |-> FALSE, stats |-> 0]
        ELSE readFile(g.c, d, path)

\* File.OpenFileStat
OpenFileStat(c, d, path, fi) ==
    LET g == FileGet(c, path)
    IN  IF g.ok
        THEN IF same(g.value, fi)
             THEN [c |-> g.c, data |-> g.value.data, err |-> FALSE, stats |-> 0]
             ELSE readFile(FileRemove(g.c, path), d, path)
        ELSE readFile(g.c, d, path)

\* File.OpenFile
OpenFile(c, d, path) ==
    LET g == FileGet(c, path)
    IN  IF g.ok
        THEN LET fi == Stat(d[path])
             IN  IF same(g.value, fi)
                 THEN [c |-> g.c, data |-> g.value.data, err |-> FALSE, stats |-> 1]
                 ELSE IF fi.nil
                 THEN [c |-> FileRemove(g.c, path), data |-> 0, err |-> TRUE, stats |-> 1]
                 ELSE [readFile(FileRemove(g.c, path), d, path) EXCEPT !.stats = 1]
        ELSE readFile(g.c, d, path)

\* C35: from every cache and disk that the calls and the changes to the disk
\* lead to, OpenFileStat(path, fi) with the stat the path has now returns
\* what OpenFile(path) returns and leaves the cache that OpenFile leaves; it
\* makes no stat of the path, where OpenFile makes one when the path is cached.
C35_OpenFileStatAsOpenFile ==
    use = "File" =>
        \A p \in Paths :
            LET a == OpenFile(fcache, disk, p)
                b == OpenFileStat(fcache, disk, p, Stat(disk[p]))
            IN  /\ b.c = a.c
                /\ b.data = a.data
                /\ b.err = a.err
                /\ b.stats = 0
                /\ a.stats = IF Cached(fcache, p) # NoEntry THEN 1 ELSE 0

\* A path is cached with a modification time later than the one its file has
\* now, so that both calls find the entry stale, drop it and read the file.
C35_Witness ==
    /\ use = "File"
    /\ \E p \in Paths :
          /\ Cached(fcache, p) # NoEntry
          /\ disk[p].exists
          /\ Cached(fcache, p).modTime > disk[p].modTime
          /\ OpenFileStat(fcache, disk, p, Stat(disk[p])).data = disk[p].data
          /\ Cached(fcache, p).data # disk[p].data

\* ------------------------------------------------- readdir
\* One call of readdir(f) from readDir, on a directory whose children are
\* rllive while other processes remove some of them. rlbuild is the build
\* (the unix file or the one for windows and plan9), rlnames the names the
\* enumeration gave and rlerr whether it ended in an error, rlk the place of
\* the loop over the names, rlfis the entries gathered, rlskip the children
\* whose Lstat said they are gone, rlret what readdir returned.

\* The children in S, in the order of their names.
InOrder(S) ==
    CHOOSE f \in [1..Cardinality(S) -> S] :
        \A i, j \in 1..Cardinality(S) : i < j => f[i] < f[j]

InitList ==
    /\ rlbuild \in {"unix", "windows"}
    /\ rllive \in SUBSET Children
    /\ rlpc = "names"
    /\ rlnames = <<>>
    /\ rlerr = FALSE
    /\ rlk = 0
    /\ rlfis = <<>>
    /\ rlskip = {}
    /\ rlret = NoListing
    /\ IdleLRU
    /\ IdleDef
    /\ IdleCache
    /\ IdleOffset
    /\ IdleLock
    /\ IdleReader

\* names, err := f.Readdirnames(-1) on unix, which gives the names read
\* before an error; list, err := f.Readdir(-1) and the whole of readdir on
\* windows and plan9.
ListNames ==
    /\ rlpc = "names"
    /\ \E enumErr \in BOOLEAN, n \in 0..Cardinality(rllive) :
          /\ ~enumErr => n = Cardinality(rllive)
          /\ rlerr' = enumErr
          /\ rlnames' = SubSeq(InOrder(rllive), 1, n)
          /\ IF rlbuild = "unix"
             THEN /\ rlpc' = "loop"
                  /\ rlk' = 1
                  /\ UNCHANGED <<rlfis, rlret>>
             ELSE /\ rlpc' = "done"
                  /\ rlfis' = IF enumErr THEN <<>> ELSE rlnames'
                  /\ rlret' = [fis |-> rlfis', err |-> IF enumErr THEN "enum" ELSE "nil"]
                  /\ UNCHANGED rlk
    /\ UNCHANGED <<rlbuild, rllive, rlskip>>
    /\ UNCHANGED <<lruVars, defVars, findVars, cacheVars, offVars, lockVars, readerVars>>

\* Another process removes a child between the enumeration and its Lstat.
ListVanish(kid) ==
    /\ rlpc = "loop"
    /\ kid \in rllive
    /\ rllive' = rllive \ {kid}
    /\ UNCHANGED <<rlbuild, rlpc, rlnames, rlerr, rlk, rlfis, rlskip, rlret>>
    /\ UNCHANGED <<lruVars, defVars, findVars, cacheVars, offVars, lockVars, readerVars>>

\* One turn of the loop: fip, lerr := fs.Lstat(dirname + "/" + filename).
ListLstat ==
    /\ rlpc = "loop"
    /\ rlk <= Len(rlnames)
    /\ LET kid == rlnames[rlk]
       IN  IF kid \notin rllive
           THEN /\ rlskip' = rlskip \cup {kid}
                /\ rlk' = rlk + 1
                /\ UNCHANGED <<rlpc, rlfis, rlret>>
           ELSE \E ok \in BOOLEAN :
                   IF ok
                   THEN /\ rlfis' = Append(rlfis, kid)
                        /\ rlk' = rlk + 1
                        /\ UNCHANGED <<rlpc, rlskip, rlret>>
                   ELSE /\ rlret' = [fis |-> rlfis, err |-> "lerr"]
                        /\ rlpc' = "done"
                        /\ UNCHANGED <<rlk, rlfis, rlskip>>
    /\ UNCHANGED <<rlbuild, rllive, rlnames, rlerr>>
    /\ UNCHANGED <<lruVars, defVars, findVars, cacheVars, offVars, lockVars, readerVars>>

\* if len(fi) == 0 && err == nil { err = io.EOF }; return fi, err
ListEnd ==
    /\ rlpc = "loop"
    /\ rlk > Len(rlnames)
    /\ rlret' = [fis |-> rlfis,
                 err |-> IF rlerr THEN "enum"
                         ELSE IF Len(rlfis) = 0 THEN "EOF" ELSE "nil"]
    /\ rlpc' = "done"
    /\ UNCHANGED <<rlbuild, rllive, rlnames, rlerr, rlk, rlfis, rlskip>>
    /\ UNCHANGED <<lruVars, defVars, findVars, cacheVars, offVars, lockVars, readerVars>>

NextList ==
    \/ ListNames
    \/ \E kid \in Children : ListVanish(kid)
    \/ ListLstat
    \/ ListEnd

SpecList == InitList /\ [][NextList]_vars

\* fis, err := readdir(f); if err != nil { return nil, err } in readDir, which
\* ReadDir returns to its caller.
ReadDirFails == rlpc = "done" /\ rlret.err # "nil"

\* C36 as stated: when the enumeration gave no name and no error, the
\* directory being empty, ReadDir reports no failure.
C36_Original ==
    (rlpc = "done" /\ rlnames = <<>> /\ ~rlerr) => ~ReadDirFails

NotSkipped(kid) == kid \notin rlskip

\* C37 as stated: on unix, when children have gone between the enumeration
\* and their Lstat and nothing else failed, the listing holds the children
\* whose Lstat succeeded, each name having been tried once, and ReadDir
\* reports no failure.
C37_Original ==
    (rlpc = "done" /\ rlbuild = "unix" /\ rlskip # {} /\ ~rlerr /\ rlret.err # "lerr") =>
        /\ ~ReadDirFails
        /\ rlret.fis = SelectSeq(rlnames, NotSkipped)
        /\ Len(rlret.fis) + Cardinality(rlskip) = Len(rlnames)

\* ------------------------------------------------- when findPackageMember runs
\* The identifier is Y in X.Y, X an identifier the parser did not bind, and
\* Y an exported name.
QualifiedShape(qq) == qq.selSel /\ qq.xIdent /\ qq.xObjNil /\ qq.exported

\* C38: findPackageMember is entered only for an identifier that the
\* fast path left unresolved and that has the shape above; every other
\* identifier that the fast path left unresolved goes straight to the type
\* checker; and classifying the identifier changes nothing: the query is as
\* it was and nothing of findPackageMember has been touched but its start.
C38_LocatorOnlyForQualified ==
    /\ [](calls.find >= 1 =>
            q.fastOk /\ q.isIdent /\ ~q.objValid /\ QualifiedShape(q))
    /\ [][(dpc = "fast" /\ dpc' # "fast") =>
            /\ q' = q
            /\ <<fin, spawned, recvd, fret, wpc, whold, wres, sent, gate, done, ch>>'
                  = <<fin, spawned, recvd, fret, wpc, whold, wres, sent, gate, done, ch>>
            /\ (q.fastOk /\ q.isIdent /\ ~q.objValid /\ ~QualifiedShape(q)) =>
                  /\ dpc' = "typecheck"
                  /\ calls'.find = 0
                  /\ mpc' = mpc
            /\ dpc' = "find" => mpc' = "import"]_vars

\* An unresolved identifier Y in X.Y, with X unbound and imported, whose name
\* is not exported, has gone to the type checker and not to findPackageMember.
C38_Witness ==
    /\ dpc = "done"
    /\ q.fastOk /\ q.isIdent /\ ~q.objValid
    /\ q.selSel /\ q.xIdent /\ q.xObjNil /\ q.imported /\ ~q.exported
    /\ calls.load = 1
    /\ calls.find = 0

\* ------------------------------------------------- a file that only gets newer
\* OpenFile calls on a File without a bound, while other processes write the
\* files, every write with a modification time later than the one before.
\* hist records the latest modification time cached for each path and the
\* content each path had when the call in progress began; the content of a
\* file is numbered by the writes, so later content has the greater number.
InitMono ==
    /\ use = "File"
    /\ disk = [p \in Paths |-> [exists |-> TRUE, data |-> 1, modTime |-> 1, size |-> 1]]
    /\ ddisk = [d \in Dirs |-> [exists |-> TRUE, data |-> 1, modTime |-> 1, size |-> 0]]
    /\ mods = 0
    /\ fcache = NewCache(TRUE, "nil", FALSE, 0, 0, 0, FALSE)
    /\ dcache = NewCache(TRUE, "nil", FALSE, 0, 0, 0, FALSE)
    /\ tpc = [t \in Threads |-> "idle"]
    /\ tl = [t \in Threads |-> NoLocals]
    /\ tret = NoReturn
    /\ ncalls = 0
    /\ hist = [NoHist EXCEPT !.on = TRUE]
    /\ IdleLRU
    /\ IdleDef
    /\ IdleOffset
    /\ IdleLock
    /\ IdleReader
    /\ IdleList

\* Another process writes file p: new content, a later modification time,
\* any size.
WriteFileLater(p) ==
    /\ mods < MaxMods
    /\ mods' = mods + 1
    /\ \E mt \in (disk[p].modTime + 1)..MaxLaterTime, sz \in 0..MaxFileSize :
          disk' = [disk EXCEPT ![p] = [exists |-> TRUE, data |-> mods + 2,
                                       modTime |-> mt, size |-> sz]]
    /\ UNCHANGED <<use, ddisk, fcache, dcache, tpc, tl, tret, ncalls>>
    /\ UNCHANGED <<hist, lruVars, defVars, findVars, offVars, lockVars, readerVars, listVars>>

NextMono ==
    \/ \E p \in Paths : WriteFileLater(p)
    \/ \E t \in Threads, p \in Paths : CallOpenFile(t, p)
    \/ \E t \in Threads : FGet(t)
    \/ \E t \in Threads : FStat(t)
    \/ \E t \in Threads : FRemove(t)
    \/ \E t \in Threads : FOpen(t)
    \/ \E t \in Threads : FRead(t)
    \/ \E t \in Threads : FInsert(t)

SpecMono == InitMono /\ [][NextMono]_vars

\* C39 as stated: the entry the File holds for a path never has a
\* modification time earlier than one that was cached for the path before,
\* evictions of stale entries in between included.
C39_Original ==
    hist.on =>
        \A p \in Paths :
            Cached(fcache, p) # NoEntry => Cached(fcache, p).modTime >= hist.seen[p]

\* C40: with every write giving a later modification time, an OpenFile that
\* returns bytes returns content no older than the content the file had when
\* the call began, under every interleaving with other OpenFile calls and
\* with the writes.
C40_NoContentFromBefore ==
    [][\A t \in Threads :
          (hist.on /\ tpc[t] # "idle" /\ tpc'[t] = "idle" /\ tret'.t = t
              /\ tret'.op = "OpenFile" /\ ~tret'.err) =>
            /\ tret'.data >= hist.began[t]
            /\ tret'.data <= disk[tret'.path].data]_vars

\* An OpenFile that began after the second write of a file has found the
\* entry cached for it, of an earlier modification time, stale, and has
\* returned the content of the second write.
C40_Witness ==
    /\ hist.on
    /\ tret.op = "OpenFile"
    /\ ~tret.err
    /\ tret.via = "read"
    /\ hist.began[tret.t] = 3
    /\ tret.data = 3
    /\ hist.seen[tret.path] = MaxLaterTime
    /\ Cached(fcache, tret.path).modTime = MaxLaterTime

====
